---- MODULE Spec2Model ----
(***************************************************************************)
(* The SECL rule compiler (package eval): identToEvaluator,                *)
(* arrayToEvaluator and nodeToEvaluator, with the CompileState they        *)
(* mutate (registersInfo, fields).                                         *)
(*                                                                         *)
(* Strings that the code takes apart (identifiers) are sequences of        *)
(* one-character strings, so that extractField's regular expressions and   *)
(* strings.Split are computed, not assumed.  Positions (lexer.Position)    *)
(* are token offsets; NoPos is the zero Position.                          *)
(***************************************************************************)
EXTENDS Integers, Sequences, FiniteSets, TLC

VARIABLES state, result, rule, sender, dest, env, poller, store

vars == <<state, result, rule, sender, dest, env, poller, store>>

\* the variables of the rule compiler and those of the logs sender
compilerVars == <<state, result, rule>>

senderVars == <<sender, dest, env>>

\* the configPoller and the uptane remote store
otherVars == <<poller, store>>

----------------------------------------------------------------------------
(* Bounds *)

\* identifiers resolved one after the other in one compile
MaxIdents == 2

\* number of distinct strings RandString is let to return
MaxRand == 2

\* payloads put on the sender's input
MaxPayloads == 2

\* capacity of the input channel of a destination
BufferSize == 1

\* configurations a provider returns from one Collect
MaxFetched == 2

\* highest version of a TUF metadata file
MaxVersion == 1

----------------------------------------------------------------------------
(* Strings *)

Empty == <<>>

\* index of the first "]" strictly after position i, 0 when there is none
FirstClose(s, i) ==
  IF \E j \in (i + 1)..Len(s) : s[j] = "]"
  THEN CHOOSE j \in (i + 1)..Len(s) :
         s[j] = "]" /\ \A k \in (i + 1)..(j - 1) : s[k] # "]"
  ELSE 0

\* regexp `\[([^\]]*)\]`, FindStringSubmatch: the leftmost match and its group
FindStringSubmatch(s) ==
  LET opens == {i \in 1..Len(s) : s[i] = "[" /\ FirstClose(s, i) # 0}
  IN IF opens = {} THEN <<>>
     ELSE LET i == CHOOSE x \in opens : \A y \in opens : x <= y
              j == FirstClose(s, i)
          IN <<SubSeq(s, i, j), SubSeq(s, i + 1, j - 1)>>

\* regexp `(.+)\[[^\]]+\](.*)`: positions i (the "[") and j (the "]") of the
\* match, the greedy (.+) taking the longest prefix; <<0, 0>> when no match
RegisterMatch(s) ==
  LET opens == {i \in 2..Len(s) : s[i] = "[" /\ FirstClose(s, i) >= i + 2}
  IN IF opens = {} THEN <<0, 0>>
     ELSE LET i == CHOOSE x \in opens : \A y \in opens : x >= y
          IN <<i, FirstClose(s, i)>>

\* re.ReplaceAllString(field, `$1$2`)
ReplaceAllField(s) ==
  LET m == RegisterMatch(s)
  IN IF m[1] = 0 THEN s
     ELSE SubSeq(s, 1, m[1] - 1) \o SubSeq(s, m[2] + 1, Len(s))

\* re.ReplaceAllString(field, `$1`)
ReplaceAllItField(s) ==
  LET m == RegisterMatch(s)
  IN IF m[1] = 0 THEN s ELSE SubSeq(s, 1, m[1] - 1)

RECURSIVE Split(_)
\* strings.Split(field, ".")
Split(s) ==
  IF \A i \in 1..Len(s) : s[i] # "."
  THEN <<s>>
  ELSE LET i == CHOOSE x \in 1..Len(s) :
                  s[x] = "." /\ \A k \in 1..(x - 1) : s[k] # "."
       IN <<SubSeq(s, 1, i - 1)>> \o Split(SubSeq(s, i + 1, Len(s)))

----------------------------------------------------------------------------
(* Positions and errors *)

NoPos == 0

Err(kind, pos) == [kind |-> kind, pos |-> pos, expected |-> "-"]

NoErr == Err("nil", NoPos)

NewRegisterNameNotAllowed(pos) == Err("RegisterNameNotAllowed", pos)

NewRegisterMultipleFields(pos) == Err("RegisterMultipleFields", pos)

NewTypeError(pos, kind) ==
  [kind |-> "TypeError", pos |-> pos, expected |-> kind]

NewOpUnknownError(pos) == Err("OpUnknown", pos)

NewError(pos) == Err("Error", pos)

ErrNonStaticPattern == Err("NonStaticPattern", NoPos)

\* fmt.Errorf("wrong register format for fields: %s", field)
ErrRegisterFormat == Err("RegisterFormat", NoPos)

ErrIteratorNotFound == Err("IteratorNotFound", NoPos)

ErrFieldNotFound == Err("FieldNotFound", NoPos)

\* the run-time panic of a nil pointer dereference: the compile does not
\* return
NilDereference == Err("Panic", NoPos)

----------------------------------------------------------------------------
(* extractField *)

extractField(field) ==
  LET ids == FindStringSubmatch(field)
  IN CASE Len(ids) = 0 ->
            [field |-> field, itField |-> Empty, regID |-> Empty, err |-> NoErr]
       [] Len(ids) = 2 ->
            [field |-> ReplaceAllField(field),
             itField |-> ReplaceAllItField(field),
             regID |-> ids[2], err |-> NoErr]
       [] OTHER ->
            [field |-> Empty, itField |-> Empty, regID |-> Empty,
             err |-> ErrRegisterFormat]

----------------------------------------------------------------------------
(* Evaluators *)

\* kind: the Go type behind the interface{} value returned by the compile:
\*   "Bool" .. "StringArray" are the pointer types *BoolEvaluator ..
\*   *StringArrayEvaluator, "IntArrayValue" is a non-pointer
\*   IntArrayEvaluator, "Other" any other value, "nil" no value.
\* static: EvalFnc == nil.  override: what OpOverrides.StringEquals is
\*   ("none" when nil, else whether the override returns an evaluator or an
\*   error).  valid: whether Value compiles as a pattern.  compiled: regexp
\*   # nil.  op/neg/lhs/rhs: the operator function that built a Bool
\*   evaluator, whether Not was applied to it, and its operands in call order.
MkEval(kind, static) ==
  [kind |-> kind, static |-> static, isDuration |-> FALSE,
   override |-> "none", valueType |-> "Scalar", valid |-> TRUE,
   compiled |-> FALSE, op |-> "-", neg |-> FALSE, lhs |-> "-", rhs |-> "-",
   name |-> "-"]

NilEval == MkEval("nil", TRUE)

Named(ev, name) == [ev EXCEPT !.name = name]

----------------------------------------------------------------------------
(* The Model, the options and the CompileState *)

ItA == <<"a">>
ItB == <<"b">>
ItAB == <<"a", ".", "b">>

\* Model.GetIterator: the field paths that have an iterator
ModelIterators == {ItA, ItB, ItAB}

FldP == <<"p">>
FldO == <<"o">>
FldE == <<"e">>
FldQ == <<"q">>
FldF == <<"f">>
FldS == <<"s">>
FldI == <<"i">>
FldT == <<"t">>
FldAX == <<"a", ".", "x">>
FldAY == <<"a", ".", "y">>
FldBX == <<"b", ".", "x">>
FldABX == <<"a", ".", "b", ".", "x">>
FldNX == <<"n", ".", "x">>
FldLX == <<"l", ".", "x">>
ItL == <<"l">>
FldG == <<"g">>
FldH == <<"h">>
FldAZ == <<"a", ".", "z">>

\* Model.GetEvaluator: the evaluator of each known field
ModelFields ==
  (FldP :> Named(MkEval("String", FALSE), "p")) @@
  (FldO :> [Named(MkEval("String", FALSE), "o") EXCEPT !.override = "ok"]) @@
  (FldE :> [Named(MkEval("String", FALSE), "e") EXCEPT !.override = "err"]) @@
  (FldQ :> Named(MkEval("Int", FALSE), "q")) @@
  (FldF :> Named(MkEval("Bool", FALSE), "f")) @@
  (FldS :> Named(MkEval("StringArray", FALSE), "s")) @@
  (FldI :> Named(MkEval("IntArray", FALSE), "i")) @@
  (FldT :> Named(MkEval("BoolArray", FALSE), "t")) @@
  (FldAX :> Named(MkEval("String", FALSE), "a.x")) @@
  (FldAY :> Named(MkEval("Int", FALSE), "a.y")) @@
  (FldBX :> Named(MkEval("String", FALSE), "b.x")) @@
  (FldABX :> Named(MkEval("String", FALSE), "a.b.x")) @@
  (FldG :> Named(MkEval("String", FALSE), "g")) @@
  (FldH :> Named(MkEval("IntArray", FALSE), "h"))

GetIterator(model, field) ==
  IF field \in model.iterators
  THEN [iterator |-> field, err |-> NoErr]
  ELSE [iterator |-> Empty, err |-> ErrIteratorNotFound]

GetEvaluator(model, field, regID) ==
  IF field \in DOMAIN model.fields
  THEN [ev |-> model.fields[field], err |-> NoErr]
  ELSE [ev |-> NilEval, err |-> ErrFieldNotFound]

TheModel == [iterators |-> ModelIterators, fields |-> ModelFields]

CstTrue == <<"T">>
CstK == <<"k">>
CstC == <<"c">>
MacM == <<"m">>
MacN == <<"n">>

\* `c` is a constant and a macro, `g` a constant and a field of the Model
Constants ==
  (CstTrue :> Named(MkEval("Bool", TRUE), "T")) @@
  (CstK :> Named(MkEval("Other", TRUE), "k")) @@
  (CstC :> Named(MkEval("IntArray", TRUE), "c")) @@
  (FldG :> Named(MkEval("Int", TRUE), "g"))

\* `c` is a macro and a constant, `h` a macro and a field of the Model
Macros ==
  (MacM :> Named(MkEval("Bool", FALSE), "m")) @@
  (MacN :> Named(MkEval("StringArray", TRUE), "n")) @@
  (CstC :> Named(MkEval("StringArray", TRUE), "c")) @@
  (FldH :> Named(MkEval("StringArray", TRUE), "h"))

\* old spellings: the fields `n.x` and `l.x` are now `a.x`, the iterator
\* field `l` is now `a`
LegacyAttributes == (FldNX :> FldAX) @@ (FldLX :> FldAX) @@ (ItL :> ItA)

Opts ==
  [LegacyAttributes |-> LegacyAttributes, Constants |-> Constants,
   Macros |-> Macros]

\* number of RandString calls so far in the compile is Len(st.log) at most;
\* RandStrings is what RandString(8) may return
RandStrings == {<<ToString(n)>> : n \in 1..MaxRand}

NoRegisters == [r \in {} |-> 0]

\* state.model and state.macros: set when the CompileState is made, never
\* changed by the compile
StateModel == TheModel

StateMacros == Macros

\* a fresh CompileState; rand holds the strings the next calls of RandString
\* return, log the identifier resolutions made so far
NewState(rand) ==
  [registersInfo |-> NoRegisters, fields |-> {}, rand |-> rand, log |-> <<>>]

UpdateFields(st, field) == [st EXCEPT !.fields = @ \cup {field}]

----------------------------------------------------------------------------
(* identToEvaluator *)

Ret(ev, pos, err, st) == [ev |-> ev, pos |-> pos, err |-> err, st |-> st]

IsNil(err) == err.kind = "nil"

\* the compile faults in state st
Panic(st) == Ret(NilEval, NoPos, NilDereference, st)

Panicked(err) == err.kind = "Panic"

Logged(st, entry) == [st EXCEPT !.log = Append(@, entry)]

\* RandString(8): the next string of the random source
RandString(st) == Head(st.rand)

RECURSIVE ScanIterator(_, _, _)
\* the loop over strings.Split(field, "."): the first growing dotted prefix
\* that the Model knows as an iterator, Empty (nil) when there is none
ScanIterator(model, nodes, candidate) ==
  IF nodes = <<>> THEN Empty
  ELSE LET node == Head(nodes)
           cand == IF candidate = Empty THEN node
                   ELSE candidate \o <<".">> \o node
           got == GetIterator(model, cand)
       IN IF IsNil(got.err) THEN got.iterator
          ELSE ScanIterator(model, Tail(nodes), cand)

\* lines 89-97: both lookups use the (already replaced) field as the key
LegacyField(opts, field) ==
  IF field \in DOMAIN opts.LegacyAttributes
  THEN opts.LegacyAttributes[field] ELSE field

LegacyItField(opts, field, itField) ==
  IF field \in DOMAIN opts.LegacyAttributes
  THEN opts.LegacyAttributes[field] ELSE itField

\* BindRegister with an existing entry left as it is
BindRegister_NoExtend(pos, field, itField, regID0, iterator, st) ==
  IF regID0 # Empty /\ regID0 # <<"_">>
  THEN [err |-> NewRegisterNameNotAllowed(pos), regID |-> regID0, st |-> st]
  ELSE LET regID == RandString(st)
           st1 == [st EXCEPT !.rand = Tail(@)]
       IN IF regID \in DOMAIN st1.registersInfo
          THEN IF st1.registersInfo[regID].field # itField
               THEN [err |-> NewRegisterMultipleFields(pos), regID |-> regID,
                     st |-> st1]
               ELSE [err |-> NoErr, regID |-> regID, st |-> st1]
          ELSE [err |-> NoErr, regID |-> regID,
                st |-> [st1 EXCEPT !.registersInfo =
                          (regID :> [field |-> itField, iterator |-> iterator,
                                     subFields |-> {field}]) @@ @]]

\* BindRegister with the register name taken as written
BindRegister_AnyName(pos, field, itField, regID0, iterator, st) ==
  LET regID == IF regID0 = Empty \/ regID0 = <<"_">>
               THEN RandString(st) ELSE regID0
      st1 == [st EXCEPT !.rand = Tail(@)]
  IN IF regID \in DOMAIN st1.registersInfo
     THEN IF st1.registersInfo[regID].field # itField
          THEN [err |-> NewRegisterMultipleFields(pos), regID |-> regID,
                st |-> st1]
          ELSE [err |-> NoErr, regID |-> regID,
                st |-> [st1 EXCEPT !.registersInfo[regID].subFields =
                                     @ \cup {field}]]
     ELSE [err |-> NoErr, regID |-> regID,
           st |-> [st1 EXCEPT !.registersInfo =
                     (regID :> [field |-> itField, iterator |-> iterator,
                                subFields |-> {field}]) @@ @]]

\* BindRegister with the test of the register name inverted
BindRegister_NameInverted(pos, field, itField, regID0, iterator, st) ==
  IF regID0 = Empty \/ regID0 = <<"_">>
  THEN [err |-> NewRegisterNameNotAllowed(pos), regID |-> regID0, st |-> st]
  ELSE [err |-> NoErr, regID |-> regID0,
        st |-> [st EXCEPT !.registersInfo =
                  (regID0 :> [field |-> itField, iterator |-> iterator,
                              subFields |-> {field}]) @@ @]]

\* BindRegister with a reused id bound to the new iterator field
BindRegister_Rebind(pos, field, itField, regID0, iterator, st) ==
  IF regID0 # Empty /\ regID0 # <<"_">>
  THEN [err |-> NewRegisterNameNotAllowed(pos), regID |-> regID0, st |-> st]
  ELSE LET regID == RandString(st)
           st1 == [st EXCEPT !.rand = Tail(@)]
       IN IF regID \in DOMAIN st1.registersInfo
          THEN [err |-> NoErr, regID |-> regID,
                st |-> [st1 EXCEPT !.registersInfo[regID].field = itField,
                                   !.registersInfo[regID].subFields =
                                     @ \cup {field}]]
          ELSE [err |-> NoErr, regID |-> regID,
                st |-> [st1 EXCEPT !.registersInfo =
                          (regID :> [field |-> itField, iterator |-> iterator,
                                     subFields |-> {field}]) @@ @]]

\* lines 122-149: the register of an identifier that has an iterator
BindRegister(pos, field, itField, regID0, iterator, st) ==
  IF regID0 # Empty /\ regID0 # <<"_">>
  THEN [err |-> NewRegisterNameNotAllowed(pos), regID |-> regID0, st |-> st]
  ELSE LET regID == IF regID0 = Empty \/ regID0 = <<"_">>
                    THEN RandString(st) ELSE regID0
           st1 == [st EXCEPT !.rand = Tail(@)]
       IN IF regID \in DOMAIN st1.registersInfo
          THEN IF st1.registersInfo[regID].field # itField
               THEN [err |-> NewRegisterMultipleFields(pos), regID |-> regID,
                     st |-> st1]
               ELSE [err |-> NoErr, regID |-> regID,
                     st |-> [st1 EXCEPT !.registersInfo[regID].subFields =
                                          @ \cup {field}]]
          ELSE [err |-> NoErr, regID |-> regID,
                st |-> [st1 EXCEPT !.registersInfo =
                          (regID :> [field |-> itField, iterator |-> iterator,
                                     subFields |-> {field}]) @@ @]]

\* the record of one call of identToEvaluator
LogEntry(ident, via, field, itField, regID0, regID, iterator, err) ==
  [ident |-> ident, via |-> via, field |-> field, itField |-> itField,
   regID0 |-> regID0, regID |-> regID, iterator |-> iterator, err |-> err]

\* accessorOf with the call of UpdateFields left out
accessorOf_NoUpdate(obj, field, itField, regID0, iterator, bound, accessor) ==
  IF ~IsNil(bound.err)
  THEN Ret(NilEval, obj.Pos, bound.err,
           Logged(bound.st,
                  LogEntry(obj.Ident, "field", field, itField, regID0,
                           bound.regID, iterator, bound.err)))
  ELSE IF ~IsNil(accessor.err)
  THEN Ret(NilEval, obj.Pos, accessor.err,
           Logged(bound.st,
                  LogEntry(obj.Ident, "field", field, itField, regID0,
                           bound.regID, iterator, accessor.err)))
  ELSE Ret(accessor.ev, obj.Pos, NoErr,
           Logged(bound.st,
                  LogEntry(obj.Ident, "field", field, itField, regID0,
                           bound.regID, iterator, NoErr)))

\* lines 151-158: the accessor of the field, the register being bound
accessorOf(obj, field, itField, regID0, iterator, bound, accessor) ==
  IF ~IsNil(bound.err)
  THEN Ret(NilEval, obj.Pos, bound.err,
           Logged(bound.st,
                  LogEntry(obj.Ident, "field", field, itField, regID0,
                           bound.regID, iterator, bound.err)))
  ELSE IF ~IsNil(accessor.err)
  THEN Ret(NilEval, obj.Pos, accessor.err,
           Logged(bound.st,
                  LogEntry(obj.Ident, "field", field, itField, regID0,
                           bound.regID, iterator, accessor.err)))
  ELSE Ret(accessor.ev, obj.Pos, NoErr,
           Logged(UpdateFields(bound.st, field),
                  LogEntry(obj.Ident, "field", field, itField, regID0,
                           bound.regID, iterator, NoErr)))

\* lines 122-158: the register, when there is an iterator, then the accessor
registerOf(obj, st, field, itField, regID0, iterator, bound) ==
  accessorOf(obj, field, itField, regID0, iterator, bound,
             GetEvaluator(StateModel, field, bound.regID))

\* lines 99-149: the iterator of the field and its register
iteratorOf(obj, st, field, itField, regID0, direct, scanned) ==
  IF itField # Empty /\ ~IsNil(direct.err)
  THEN Ret(NilEval, obj.Pos, direct.err,
           Logged(st, LogEntry(obj.Ident, "field", field, itField, regID0,
                               regID0, Empty, direct.err)))
  ELSE IF itField # Empty
  THEN registerOf(obj, st, field, itField, regID0, direct.iterator,
                  BindRegister(obj.Pos, field, itField, regID0,
                               direct.iterator, st))
  ELSE IF scanned # Empty
  THEN registerOf(obj, st, field, itField, regID0, scanned,
                  BindRegister(obj.Pos, field, itField, regID0, scanned, st))
  ELSE registerOf(obj, st, field, itField, regID0, Empty,
                  [err |-> NoErr, regID |-> regID0, st |-> st])

\* lines 89-120: the legacy names, then the iterator
legacyOf(obj, opts, st, field, itField0, regID0) ==
  iteratorOf(obj, st, field, LegacyItField(opts, field, itField0), regID0,
             GetIterator(StateModel, LegacyItField(opts, field, itField0)),
             ScanIterator(StateModel, Split(field), Empty))

\* lines 84-97: the identifier taken apart
fieldToEvaluator(obj, opts, st, ef) ==
  IF ~IsNil(ef.err)
  THEN Ret(NilEval, obj.Pos, ef.err,
           Logged(st, LogEntry(obj.Ident, "field", Empty, Empty, Empty,
                               Empty, Empty, ef.err)))
  ELSE legacyOf(obj, opts, st, LegacyField(opts, ef.field), ef.itField,
                ef.regID)

identToEvaluator(obj, opts, st) ==
  IF obj.Ident \in DOMAIN opts.Constants
  THEN Ret(opts.Constants[obj.Ident], obj.Pos, NoErr,
           Logged(st, LogEntry(obj.Ident, "constant", Empty, Empty, Empty,
                               Empty, Empty, NoErr)))
  ELSE IF obj.Ident \in DOMAIN StateMacros
  THEN Ret(StateMacros[obj.Ident], obj.Pos, NoErr,
           Logged(st, LogEntry(obj.Ident, "macro", Empty, Empty, Empty,
                               Empty, Empty, NoErr)))
  ELSE fieldToEvaluator(obj, opts, st, extractField(obj.Ident))

----------------------------------------------------------------------------
(* The AST (package ast).  A Go pointer field is None (nil) or Some(v). *)

None == <<>>

Some(v) == <<v>>

Deref(p) == p[1]

\* a nil pointer to a node
NilNode == [type |-> "nil"]

\* the node a pointer field holds
Pointee(p) == IF p = None THEN NilNode ELSE p[1]

\* whether a literal's text compiles as a pattern or regular expression
PatternValid(text) == text # "bad"

\* Rule texts are given as terms d (d.k the production, leaves one token
\* wide); Parse builds the AST the grammar yields for the term starting at
\* token pos, every node's Pos being the position of its first token.
RECURSIVE Width(_)
Width(d) ==
  CASE d.k \in {"logic", "scmp", "acmp", "bit"} -> Width(d.l) + 1 + Width(d.r)
    [] d.k = "un" -> 1 + Width(d.x)
    [] d.k = "sub" -> 2 + Width(d.x)
    [] OTHER -> 1

LevelOf(d) ==
  CASE d.k = "logic" -> "Expression"
    [] d.k \in {"scmp", "acmp"} -> "Comparison"
    [] d.k = "bit" -> "BitOperation"
    [] d.k = "un" -> "Unary"
    [] d.k = "array" -> "Array"
    [] OTHER -> "Primary"

PrimaryNode(pos) ==
  [type |-> "Primary", Pos |-> pos, Ident |-> None, Number |-> None,
   Duration |-> None, String |-> None, Pattern |-> None, Regexp |-> None,
   SubExpression |-> None]

RECURSIVE Parse(_, _, _)
Parse(d, pos, as) ==
  CASE as = "BooleanExpression" ->
         [type |-> as, Expression |-> Parse(d, pos, "Expression")]
    [] as = "Expression" ->
         IF d.k = "logic"
         THEN [type |-> as, Pos |-> pos,
               Comparison |-> Parse(d.l, pos, "Comparison"),
               Op |-> Some(d.op),
               Next |-> Some(Parse(d.r, pos + Width(d.l) + 1, "Expression"))]
         ELSE [type |-> as, Pos |-> pos,
               Comparison |-> Parse(d, pos, "Comparison"),
               Op |-> None, Next |-> None]
    [] as = "Comparison" ->
         CASE d.k = "scmp" ->
                [type |-> as, Pos |-> pos,
                 BitOperation |-> Parse(d.l, pos, "BitOperation"),
                 ScalarComparison |->
                   Some([type |-> "ScalarComparison",
                         Pos |-> pos + Width(d.l), Op |-> Some(d.op),
                         Next |-> Parse(d.r, pos + Width(d.l) + 1,
                                        "Comparison")]),
                 ArrayComparison |-> None]
           [] d.k = "acmp" ->
                [type |-> as, Pos |-> pos,
                 BitOperation |-> Parse(d.l, pos, "BitOperation"),
                 ScalarComparison |-> None,
                 ArrayComparison |->
                   Some([type |-> "ArrayComparison",
                         Pos |-> pos + Width(d.l), Op |-> Some(d.op),
                         Array |-> Parse(d.r, pos + Width(d.l) + 1, "Array")])]
           [] OTHER ->
                [type |-> as, Pos |-> pos,
                 BitOperation |-> Parse(d, pos, "BitOperation"),
                 ScalarComparison |-> None, ArrayComparison |-> None]
    [] as = "BitOperation" ->
         IF d.k = "bit"
         THEN [type |-> as, Pos |-> pos, Unary |-> Parse(d.l, pos, "Unary"),
               Op |-> Some(d.op),
               Next |-> Some(Parse(d.r, pos + Width(d.l) + 1, "BitOperation"))]
         ELSE [type |-> as, Pos |-> pos, Unary |-> Parse(d, pos, "Unary"),
               Op |-> None, Next |-> None]
    [] as = "Unary" ->
         IF d.k = "un"
         THEN [type |-> as, Pos |-> pos, Op |-> Some(d.op),
               Unary |-> Parse(d.x, pos + 1, "Unary"), Primary |-> NilNode]
         ELSE [type |-> as, Pos |-> pos, Op |-> None, Unary |-> NilNode,
               Primary |-> Parse(d, pos, "Primary")]
    [] as = "Array" ->
         [type |-> as, Pos |-> pos, Numbers |-> d.nums,
          StringMembers |-> d.strs, Ident |-> d.id]
    [] as = "Primary" ->
         CASE d.k = "ident" -> [PrimaryNode(pos) EXCEPT !.Ident = Some(d.v)]
           [] d.k = "num" -> [PrimaryNode(pos) EXCEPT !.Number = Some(d.v)]
           [] d.k = "dur" -> [PrimaryNode(pos) EXCEPT !.Duration = Some(d.v)]
           [] d.k = "str" -> [PrimaryNode(pos) EXCEPT !.String = Some(d.v)]
           [] d.k = "pat" -> [PrimaryNode(pos) EXCEPT !.Pattern = Some(d.v)]
           [] d.k = "re" -> [PrimaryNode(pos) EXCEPT !.Regexp = Some(d.v)]
           [] d.k = "sub" ->
                [PrimaryNode(pos) EXCEPT
                   !.SubExpression = Some(Parse(d.x, pos + 1, "Expression"))]
           [] OTHER -> PrimaryNode(pos)

----------------------------------------------------------------------------
(* Operator functions (eval_operators.go) and pattern compilation *)

OpRes(ev, err) == [ev |-> ev, err |-> err]

\* a generated operator function: a Bool evaluator over its two operands
BoolOp(op, a, b) ==
  OpRes([MkEval("Bool", a.static /\ b.static) EXCEPT
           !.op = op, !.lhs = a.name, !.rhs = b.name,
           !.compiled = a.compiled \/ b.compiled],
        NoErr)

IntOp(op, a, b) ==
  OpRes([MkEval("Int", a.static /\ b.static) EXCEPT
           !.op = op, !.lhs = a.name, !.rhs = b.name],
        NoErr)

Not(a) == [a EXCEPT !.neg = ~@, !.name = "-"]

Minus(a) == [a EXCEPT !.op = "Minus", !.name = "-"]

IntNot(a) == [a EXCEPT !.op = "IntNot", !.name = "-"]

\* OpOverrides.StringEquals of operand o, called on (a, b)
Override(o, a, b) ==
  IF o.override = "err"
  THEN OpRes(NilEval, Err("Override", NoPos))
  ELSE OpRes([MkEval("Bool", FALSE) EXCEPT
                !.op = "Override:" \o o.name, !.lhs = a.name,
                !.rhs = b.name],
             NoErr)

\* StringEvaluator.Compile on a pattern or regexp literal
Compile(ev) ==
  IF ev.valid THEN OpRes([ev EXCEPT !.compiled = TRUE], NoErr)
  ELSE OpRes(ev, Err("Compile", NoPos))

\* compilePattern: compiles a static string in pattern position, once
compilePattern(ev) ==
  IF ev.compiled THEN OpRes(ev, NoErr)
  ELSE Compile([ev EXCEPT !.valueType =
                  IF @ = "Scalar" THEN "Pattern" ELSE @])

----------------------------------------------------------------------------
(* arrayToEvaluator *)

\* StringArrayEvaluator.AppendMembers / the member loop: the pattern and
\* regexp members are compiled, a failure fails the array
AppendMembers(members) ==
  IF \E i \in 1..Len(members) :
        members[i].Type # "Scalar" /\ ~PatternValid(members[i].Value)
  THEN OpRes(NilEval, Err("Compile", NoPos))
  ELSE OpRes(Named(MkEval("StringArray", TRUE), "strs"), NoErr)

arrayToEvaluator(array, opts, st) ==
  IF Len(array.Numbers) # 0
  THEN Ret(Named(MkEval("IntArrayValue", TRUE), "nums"), array.Pos, NoErr, st)
  ELSE IF Len(array.StringMembers) # 0
  THEN LET r == AppendMembers(array.StringMembers)
       IN IF ~IsNil(r.err)
          THEN Ret(NilEval, array.Pos, NewError(array.Pos), st)
          ELSE Ret(r.ev, array.Pos, NoErr, st)
  ELSE IF array.Ident # None
  THEN IF Deref(array.Ident) \in DOMAIN StateMacros
       THEN Ret(StateMacros[Deref(array.Ident)], array.Pos, NoErr,
                Logged(st, LogEntry(Deref(array.Ident), "macro", Empty, Empty,
                                    Empty, Empty, Empty, NoErr)))
       ELSE identToEvaluator([Pos |-> array.Pos, Ident |-> Deref(array.Ident)],
                             opts, st)
  ELSE Ret(NilEval, array.Pos, NewError(array.Pos), st)

----------------------------------------------------------------------------
(* nodeToEvaluator *)

\* TypeMismatch with the position left out of the error
TypeMismatch_NoPos(pos, kind, st) ==
  Ret(NilEval, pos, NewTypeError(NoPos, kind), st)

\* TypeMismatch returning the evaluator that failed the assertion
TypeMismatch_KeepsEvaluator(pos, kind, st) ==
  Ret(MkEval("Other", FALSE), pos, NewTypeError(pos, kind), st)

\* a failed type assertion: return nil, pos, NewTypeError(pos, kind)
TypeMismatch(pos, kind, st) == Ret(NilEval, pos, NewTypeError(pos, kind), st)

\* a type assertion that accepts every evaluator
IsBool_Any(ev) == TRUE

\* cmp.(*BoolEvaluator)
IsBool(ev) == ev.kind = "Bool"

\* the test for a deferred function left out
HasEvalFnc_Never(ev) == FALSE

\* nextString.EvalFnc != nil
HasEvalFnc(ev) == ~ev.static

\* StringEqualsFor asking the right operand first
StringEqualsFor_RightFirst(unary, next) ==
  IF next.override # "none" THEN Override(next, unary, next)
  ELSE IF unary.override # "none" THEN Override(unary, unary, next)
  ELSE BoolOp("StringEquals", unary, next)

\* lines 485-491: the equality of String == String
StringEqualsFor(unary, next) ==
  IF unary.override # "none" THEN Override(unary, unary, next)
  ELSE IF next.override # "none" THEN Override(next, unary, next)
  ELSE BoolOp("StringEquals", unary, next)

\* boolEvaluator, err = F(..); if err != nil { return nil, errPos, err };
\* return boolEvaluator, okPos, nil
Done(r, okPos, errPos, st) ==
  IF ~IsNil(r.err) THEN Ret(NilEval, errPos, r.err, st)
  ELSE Ret(r.ev, okPos, NoErr, st)

\* the same, returning Not(boolEvaluator, opts, state)
DoneNot(r, okPos, errPos, st) ==
  IF ~IsNil(r.err) THEN Ret(NilEval, errPos, r.err, st)
  ELSE Ret(Not(r.ev), okPos, NoErr, st)

\* line 813: what is returned when no case of the type switch returned
UnknownEntity(st) == Ret(NilEval, NoPos, NewError(NoPos), st)

\* arrayComparison with `notin` compiled as `in`
arrayComparison_NoNot(obj, unary, next, pos, st) ==
  LET op == Deref(obj.ArrayComparison).Op
      fin(r) == IF ~IsNil(r.err) THEN Ret(NilEval, pos, r.err, st)
                ELSE IF op = None THEN Panic(st)
                ELSE Done(r, obj.Pos, pos, st)
      bad == TypeMismatch(pos, "Array", st)
  IN CASE unary.kind = "Bool" ->
            IF next.kind = "BoolArray"
            THEN fin(BoolOp("ArrayBoolContains", unary, next)) ELSE bad
       [] unary.kind = "String" ->
            IF next.kind = "StringArray"
            THEN fin(BoolOp("ArrayStringContains", unary, next)) ELSE bad
       [] unary.kind = "StringArray" ->
            IF next.kind = "StringArray"
            THEN fin(BoolOp("ArrayStringMatches", unary, next)) ELSE bad
       [] unary.kind = "Int" ->
            IF next.kind = "IntArray"
            THEN fin(BoolOp("ArrayIntEquals", unary, next)) ELSE bad
       [] unary.kind = "IntArray" ->
            IF next.kind = "IntArray"
            THEN fin(BoolOp("ArrayIntMatches", unary, next)) ELSE bad
       [] OTHER -> bad

\* lines 334-407: `in` / `notin`
arrayComparison(obj, unary, next, pos, st) ==
  LET op == Deref(obj.ArrayComparison).Op
      fin(r) == IF ~IsNil(r.err) THEN Ret(NilEval, pos, r.err, st)
                ELSE IF op = None THEN Panic(st)
                ELSE IF Deref(op) = "notin" THEN DoneNot(r, obj.Pos, pos, st)
                ELSE Done(r, obj.Pos, pos, st)
      bad == TypeMismatch(pos, "Array", st)
  IN CASE unary.kind = "Bool" ->
            IF next.kind = "BoolArray"
            THEN fin(BoolOp("ArrayBoolContains", unary, next)) ELSE bad
       [] unary.kind = "String" ->
            IF next.kind = "StringArray"
            THEN fin(BoolOp("ArrayStringContains", unary, next)) ELSE bad
       [] unary.kind = "StringArray" ->
            IF next.kind = "StringArray"
            THEN fin(BoolOp("ArrayStringMatches", unary, next)) ELSE bad
       [] unary.kind = "Int" ->
            IF next.kind = "IntArray"
            THEN fin(BoolOp("ArrayIntEquals", unary, next)) ELSE bad
       [] unary.kind = "IntArray" ->
            IF next.kind = "IntArray"
            THEN fin(BoolOp("ArrayIntMatches", unary, next)) ELSE bad
       [] OTHER -> bad

\* obj.ScalarComparison.Op, the pointer that the switches dereference
OpPtr(obj) == Deref(obj.ScalarComparison).Op

\* lines 457-511: String on the left
stringComparison(obj, unary, next, pos, st) ==
  LET op == Deref(Deref(obj.ScalarComparison).Op)
      pat == compilePattern(next)
  IN IF next.kind # "String"
     THEN TypeMismatch(pos, "String", st)
     ELSE IF OpPtr(obj) = None THEN Panic(st)
     ELSE CASE op = "!=" ->
                 DoneNot(BoolOp("StringEquals", unary, next),
                         obj.Pos, obj.Pos, st)
            [] op \in {"!~", "=~"} ->
                 IF HasEvalFnc(next)
                 THEN Ret(NilEval, obj.Pos, ErrNonStaticPattern, st)
                 ELSE IF ~IsNil(pat.err)
                 THEN Ret(NilEval, obj.Pos, NewError(obj.Pos), st)
                 ELSE IF op = "!~"
                 THEN DoneNot(BoolOp("StringEquals", unary, pat.ev),
                              obj.Pos, obj.Pos, st)
                 ELSE Done(BoolOp("StringEquals", unary, pat.ev),
                           obj.Pos, obj.Pos, st)
            [] op = "==" ->
                 Done(StringEqualsFor(unary, next), obj.Pos, obj.Pos, st)
            [] OTHER -> Ret(NilEval, pos, NewOpUnknownError(obj.Pos), st)

\* stringArrayComparison with `!=` and `!~` compiled as `==` and `=~`
stringArrayComparison_NoNot(obj, unary, next, pos, st) ==
  LET op == Deref(Deref(obj.ScalarComparison).Op)
      pat == compilePattern(next)
  IN IF next.kind # "String"
     THEN TypeMismatch(pos, "String", st)
     ELSE IF OpPtr(obj) = None THEN Panic(st)
     ELSE CASE op = "!=" ->
                 Done(BoolOp("ArrayStringContains", next, unary),
                         obj.Pos, obj.Pos, st)
            [] op = "==" ->
                 Done(BoolOp("ArrayStringContains", next, unary),
                      obj.Pos, obj.Pos, st)
            [] op \in {"!~", "=~"} ->
                 IF HasEvalFnc(next)
                 THEN Ret(NilEval, obj.Pos, ErrNonStaticPattern, st)
                 ELSE IF ~IsNil(pat.err)
                 THEN Ret(NilEval, obj.Pos, NewError(obj.Pos), st)
                 ELSE IF op = "!~"
                 THEN Done(BoolOp("ArrayStringContains", pat.ev, unary),
                              obj.Pos, obj.Pos, st)
                 ELSE Done(BoolOp("ArrayStringContains", pat.ev, unary),
                           obj.Pos, obj.Pos, st)
            [] OTHER -> UnknownEntity(st)

\* lines 512-559: StringArray on the left; no return follows the switch
stringArrayComparison(obj, unary, next, pos, st) ==
  LET op == Deref(Deref(obj.ScalarComparison).Op)
      pat == compilePattern(next)
  IN IF next.kind # "String"
     THEN TypeMismatch(pos, "String", st)
     ELSE IF OpPtr(obj) = None THEN Panic(st)
     ELSE CASE op = "!=" ->
                 DoneNot(BoolOp("ArrayStringContains", next, unary),
                         obj.Pos, obj.Pos, st)
            [] op = "==" ->
                 Done(BoolOp("ArrayStringContains", next, unary),
                      obj.Pos, obj.Pos, st)
            [] op \in {"!~", "=~"} ->
                 IF HasEvalFnc(next)
                 THEN Ret(NilEval, obj.Pos, ErrNonStaticPattern, st)
                 ELSE IF ~IsNil(pat.err)
                 THEN Ret(NilEval, obj.Pos, NewError(obj.Pos), st)
                 ELSE IF op = "!~"
                 THEN DoneNot(BoolOp("ArrayStringContains", pat.ev, unary),
                              obj.Pos, obj.Pos, st)
                 ELSE Done(BoolOp("ArrayStringContains", pat.ev, unary),
                           obj.Pos, obj.Pos, st)
            [] OTHER -> UnknownEntity(st)

\* the operator function of an ordering operator
Ordering(prefix, op) ==
  CASE op = "<" -> prefix \o "LesserThan"
    [] op = "<=" -> prefix \o "LesserOrEqualThan"
    [] op = ">" -> prefix \o "GreaterThan"
    [] op = ">=" -> prefix \o "GreaterOrEqualThan"

\* `<` becomes `>` and so on, for the operands swapped
Mirror(op) ==
  CASE op = "<" -> ">"
    [] op = "<=" -> ">="
    [] op = ">" -> "<"
    [] op = ">=" -> "<="

OrderingOps == {"<", "<=", ">", ">="}

\* DurationSelector looking at the left operand
DurationSelector_Left(unary, nextInt) == unary.isDuration

\* line 563: which operand's duration flag selects the Duration functions
DurationSelector(unary, nextInt) == nextInt.isDuration

\* lines 560-677: Int on the left
intComparison(obj, unary, next, pos, st) ==
  LET op == Deref(Deref(obj.ScalarComparison).Op)
      typeErr == TypeMismatch(pos, "Int", st)
      unknown == Ret(NilEval, pos, NewOpUnknownError(obj.Pos), st)
  IN CASE next.kind = "Int" ->
            IF OpPtr(obj) = None THEN Panic(st)
            ELSE IF DurationSelector(unary, next)
            THEN IF op \in OrderingOps
                 THEN Done(BoolOp(Ordering("Duration", op), unary, next),
                           obj.Pos, obj.Pos, st)
                 ELSE typeErr
            ELSE (CASE op \in OrderingOps ->
                         Done(BoolOp(Ordering("", op), unary, next),
                              obj.Pos, obj.Pos, st)
                    [] op = "!=" ->
                         DoneNot(BoolOp("IntEquals", unary, next),
                                 obj.Pos, obj.Pos, st)
                    [] op = "==" ->
                         Done(BoolOp("IntEquals", unary, next),
                              obj.Pos, obj.Pos, st)
                    [] OTHER -> unknown)
       [] next.kind = "IntArray" ->
            IF OpPtr(obj) = None THEN Panic(st)
            ELSE (CASE op \in OrderingOps ->
                         Done(BoolOp(Ordering("ArrayInt", op), unary, next),
                              obj.Pos, obj.Pos, st)
                    [] op = "!=" ->
                         DoneNot(BoolOp("ArrayIntEquals", unary, next),
                                 obj.Pos, obj.Pos, st)
                    [] op = "==" ->
                         Done(BoolOp("ArrayIntEquals", unary, next),
                              obj.Pos, obj.Pos, st)
                    [] OTHER -> unknown)
       [] OTHER -> typeErr

\* lines 678-722: IntArray on the left
intArrayComparison(obj, unary, next, pos, st) ==
  LET op == Deref(Deref(obj.ScalarComparison).Op)
  IN IF next.kind # "Int"
     THEN TypeMismatch(pos, "Int", st)
     ELSE IF OpPtr(obj) = None THEN Panic(st)
     ELSE CASE op \in OrderingOps ->
                 Done(BoolOp(Ordering("ArrayInt", Mirror(op)), next, unary),
                      obj.Pos, obj.Pos, st)
            [] op = "!=" ->
                 DoneNot(BoolOp("ArrayIntEquals", next, unary),
                         obj.Pos, obj.Pos, st)
            [] op = "==" ->
                 Done(BoolOp("ArrayIntEquals", next, unary),
                      obj.Pos, obj.Pos, st)
            [] OTHER -> Ret(NilEval, pos, NewOpUnknownError(obj.Pos), st)

\* lines 415-456: Bool or BoolArray on the left
boolComparison(obj, unary, next, pos, st) ==
  LET op == Deref(Deref(obj.ScalarComparison).Op)
      r == IF unary.kind = "Bool" THEN BoolOp("BoolEquals", unary, next)
           ELSE BoolOp("ArrayBoolEquals", next, unary)
  IN IF next.kind # "Bool"
     THEN TypeMismatch(pos, "Bool", st)
     ELSE IF OpPtr(obj) = None THEN Panic(st)
     ELSE CASE op = "!=" -> DoneNot(r, obj.Pos, pos, st)
            [] op = "==" -> Done(r, obj.Pos, pos, st)
            [] OTHER -> Ret(NilEval, pos, NewOpUnknownError(obj.Pos), st)

\* lines 414-723: the switch on the left operand's type
scalarComparison(obj, unary, next, pos, st) ==
  CASE unary.kind \in {"Bool", "BoolArray"} ->
         boolComparison(obj, unary, next, pos, st)
    [] unary.kind = "String" -> stringComparison(obj, unary, next, pos, st)
    [] unary.kind = "StringArray" ->
         stringArrayComparison(obj, unary, next, pos, st)
    [] unary.kind = "Int" -> intComparison(obj, unary, next, pos, st)
    [] unary.kind = "IntArray" -> intArrayComparison(obj, unary, next, pos, st)
    [] OTHER -> UnknownEntity(st)

\* lines 769-808: a Primary other than an identifier or a sub-expression
literalToEvaluator(obj, st) ==
  LET lit(kind, text, vt, name) ==
        [Named(MkEval(kind, TRUE), name) EXCEPT
           !.valueType = vt, !.valid = PatternValid(text)]
      compiled(ev) ==
        LET c == Compile(ev)
        IN IF ~IsNil(c.err)
           THEN Ret(NilEval, obj.Pos, NewError(obj.Pos), st)
           ELSE Ret(c.ev, obj.Pos, NoErr, st)
  IN CASE obj.Number # None ->
            Ret(Named(MkEval("Int", TRUE), "num"), obj.Pos, NoErr, st)
       [] obj.Duration # None ->
            Ret([Named(MkEval("Int", TRUE), "dur") EXCEPT !.isDuration = TRUE],
                obj.Pos, NoErr, st)
       [] obj.String # None ->
            Ret(lit("String", Deref(obj.String), "Scalar", "str"),
                obj.Pos, NoErr, st)
       [] obj.Pattern # None ->
            compiled(lit("String", Deref(obj.Pattern), "Pattern", "pat"))
       [] obj.Regexp # None ->
            compiled(lit("String", Deref(obj.Regexp), "Regexp", "re"))
       [] OTHER -> Ret(NilEval, obj.Pos, NewError(obj.Pos), st)

RECURSIVE nodeToEvaluator(_, _, _)
nodeToEvaluator(obj, opts, st) ==
  CASE obj.type = "BooleanExpression" ->
         nodeToEvaluator(obj.Expression, opts, st)
    [] obj.type = "Expression" ->
         LET cmp == nodeToEvaluator(obj.Comparison, opts, st) IN
         IF ~IsNil(cmp.err) THEN Ret(NilEval, cmp.pos, cmp.err, cmp.st)
         ELSE IF obj.Op = None THEN Ret(cmp.ev, obj.Pos, NoErr, cmp.st)
         ELSE IF ~IsBool(cmp.ev)
         THEN TypeMismatch(obj.Pos, "Bool", cmp.st)
         ELSE
         LET next == nodeToEvaluator(Pointee(obj.Next), opts, cmp.st) IN
         IF ~IsNil(next.err) THEN Ret(NilEval, next.pos, next.err, next.st)
         ELSE IF ~IsBool(next.ev)
         THEN TypeMismatch(next.pos, "Bool", next.st)
         ELSE CASE Deref(obj.Op) \in {"||", "or"} ->
                     Done(BoolOp("Or", cmp.ev, next.ev),
                          obj.Pos, obj.Pos, next.st)
                [] Deref(obj.Op) \in {"&&", "and"} ->
                     Done(BoolOp("And", cmp.ev, next.ev),
                          obj.Pos, obj.Pos, next.st)
                [] OTHER ->
                     Ret(NilEval, next.pos, NewOpUnknownError(obj.Pos), next.st)
    [] obj.type = "BitOperation" ->
         LET unary == nodeToEvaluator(obj.Unary, opts, st) IN
         IF ~IsNil(unary.err) THEN Ret(NilEval, unary.pos, unary.err, unary.st)
         ELSE IF obj.Op = None THEN Ret(unary.ev, obj.Pos, NoErr, unary.st)
         ELSE IF unary.ev.kind # "Int"
         THEN TypeMismatch(obj.Pos, "Int", unary.st)
         ELSE
         LET next == nodeToEvaluator(Pointee(obj.Next), opts, unary.st) IN
         IF ~IsNil(next.err) THEN Ret(NilEval, next.pos, next.err, next.st)
         ELSE IF next.ev.kind # "Int"
         THEN TypeMismatch(next.pos, "Int", next.st)
         ELSE CASE Deref(obj.Op) = "&" ->
                     Done(IntOp("IntAnd", unary.ev, next.ev),
                          obj.Pos, next.pos, next.st)
                [] Deref(obj.Op) = "|" ->
                     Done(IntOp("IntOr", unary.ev, next.ev),
                          obj.Pos, next.pos, next.st)
                [] Deref(obj.Op) = "^" ->
                     Done(IntOp("IntXor", unary.ev, next.ev),
                          obj.Pos, next.pos, next.st)
                [] OTHER ->
                     Ret(NilEval, next.pos, NewOpUnknownError(obj.Pos), next.st)
    [] obj.type = "Comparison" ->
         LET unary == nodeToEvaluator(obj.BitOperation, opts, st) IN
         IF ~IsNil(unary.err) THEN Ret(NilEval, unary.pos, unary.err, unary.st)
         ELSE IF obj.ArrayComparison # None
         THEN LET next == nodeToEvaluator(Deref(obj.ArrayComparison), opts,
                                          unary.st)
              IN IF ~IsNil(next.err)
                 THEN Ret(NilEval, next.pos, next.err, next.st)
                 ELSE arrayComparison(obj, unary.ev, next.ev, next.pos, next.st)
         ELSE IF obj.ScalarComparison # None
         THEN LET next == nodeToEvaluator(Deref(obj.ScalarComparison), opts,
                                          unary.st)
              IN IF ~IsNil(next.err)
                 THEN Ret(NilEval, next.pos, next.err, next.st)
                 ELSE scalarComparison(obj, unary.ev, next.ev, next.pos,
                                       next.st)
         ELSE Ret(unary.ev, unary.pos, NoErr, unary.st)
    [] obj.type = "ArrayComparison" -> nodeToEvaluator(obj.Array, opts, st)
    [] obj.type = "ScalarComparison" -> nodeToEvaluator(obj.Next, opts, st)
    [] obj.type = "Unary" ->
         IF obj.Op = None THEN nodeToEvaluator(obj.Primary, opts, st)
         ELSE
         LET unary == nodeToEvaluator(obj.Unary, opts, st) IN
         IF ~IsNil(unary.err) THEN Ret(NilEval, unary.pos, unary.err, unary.st)
         ELSE CASE Deref(obj.Op) \in {"!", "not"} ->
                     IF unary.ev.kind # "Bool"
                     THEN TypeMismatch(unary.pos, "Bool", unary.st)
                     ELSE Ret(Not(unary.ev), obj.Pos, NoErr, unary.st)
                [] Deref(obj.Op) = "-" ->
                     IF unary.ev.kind # "Int"
                     THEN TypeMismatch(unary.pos, "Int", unary.st)
                     ELSE Ret(Minus(unary.ev), unary.pos, NoErr, unary.st)
                [] Deref(obj.Op) = "^" ->
                     IF unary.ev.kind # "Int"
                     THEN TypeMismatch(unary.pos, "Int", unary.st)
                     ELSE Ret(IntNot(unary.ev), unary.pos, NoErr, unary.st)
                [] OTHER ->
                     Ret(NilEval, unary.pos, NewOpUnknownError(obj.Pos),
                         unary.st)
    [] obj.type = "Primary" ->
         IF obj.Ident # None
         THEN identToEvaluator([Pos |-> obj.Pos, Ident |-> Deref(obj.Ident)],
                               opts, st)
         ELSE IF obj.Number = None /\ obj.Duration = None /\ obj.String = None
                 /\ obj.Pattern = None /\ obj.Regexp = None
                 /\ obj.SubExpression # None
         THEN nodeToEvaluator(Deref(obj.SubExpression), opts, st)
         ELSE literalToEvaluator(obj, st)
    [] obj.type = "Array" -> arrayToEvaluator(obj, opts, st)
    [] obj.type = "nil" -> Panic(st)
    [] OTHER -> UnknownEntity(st)

----------------------------------------------------------------------------
(* Inputs: the identifiers and the rules that are compiled *)

IdZ == <<"z">>
IdAU == <<"a", "[", "_", "]", ".", "x">>
IdAUY == <<"a", "[", "_", "]", ".", "y">>
IdBU == <<"b", "[", "_", "]", ".", "x">>
IdABU == <<"a", ".", "b", "[", "_", "]", ".", "x">>
IdAR == <<"a", "[", "r", "]", ".", "x">>
IdBR == <<"b", "[", "r", "]", ".", "x">>
IdPR == <<"p", "[", "r", "]">>
IdZR == <<"z", "[", "r", "]", ".", "x">>
IdAE == <<"a", "[", "]", ".", "x">>
IdAUU == <<"a", "[", "_", "]", ".", "b", "[", "_", "]", ".", "x">>
IdNU == <<"n", "[", "_", "]", ".", "x">>
IdLU == <<"l", "[", "_", "]", ".", "x">>
IdAUZ == <<"a", "[", "_", "]", ".", "z">>

Idents ==
  {FldP, FldQ, IdZ, CstTrue, MacM, FldAX, FldAY, FldBX, FldABX, FldNX,
   IdAU, IdAUY, IdBU, IdABU, IdAR, IdBR, IdPR, IdZR, IdAE, IdAUU, IdNU,
   IdLU, FldLX, IdAUZ, FldAZ, CstC, FldG, FldH}

Ident(v) == [k |-> "ident", v |-> v]

Lit(k, v) == [k |-> k, v |-> v]

Un(op, x) == [k |-> "un", op |-> op, x |-> x]

Bin(k, l, op, r) == [k |-> k, l |-> l, op |-> op, r |-> r]

Sub(x) == [k |-> "sub", x |-> x]

Arr(nums, strs, id) == [k |-> "array", nums |-> nums, strs |-> strs, id |-> id]

Member(type, value) == [Type |-> type, Value |-> value]

Literals ==
  {Lit("num", 3), Lit("dur", 5), Lit("str", "abc"), Lit("str", "bad"),
   Lit("pat", "abc"), Lit("pat", "bad"), Lit("re", "abc")}

FieldTerms ==
  {Ident(v) : v \in {FldP, FldO, FldE, FldQ, FldF, FldS, FldI, FldT, CstTrue,
                     CstK, MacM, FldAX, FldAY, IdAU, IdBU, IdAR, IdZ}}

Operands ==
  Literals \cup FieldTerms \cup
  {Un("-", Lit("num", 3)), Un("-", Lit("dur", 5)), Un("!", Ident(FldF)),
   Un("^", Ident(FldQ)), Un("-", Ident(FldP)),
   Sub(Bin("scmp", Ident(FldQ), "==", Lit("num", 3))),
   Bin("bit", Ident(FldQ), "&", Lit("num", 3))}

ScalarOps == {"==", "!=", "=~", "!~", "<", "<=", ">", ">=", "??"}

Arrays ==
  {Arr(<<1, 2>>, <<>>, None),
   Arr(<<>>, <<Member("Scalar", "abc"), Member("Pattern", "abc")>>, None),
   Arr(<<>>, <<Member("Scalar", "abc"), Member("Regexp", "bad")>>, None),
   Arr(<<>>, <<>>, None)} \cup
  {Arr(<<>>, <<>>, Some(v)) :
     v \in {FldS, FldI, FldT, MacN, FldP, FldQ, IdAU, IdZ, CstC, FldG,
            FldH}}

LogicOperands ==
  {Ident(FldF), Ident(CstTrue), Ident(FldQ), Ident(IdZ), Lit("str", "abc"),
   Bin("scmp", Ident(FldAX), "==", Lit("str", "abc")),
   Bin("scmp", Ident(IdAU), "==", Ident(FldAY)),
   Bin("scmp", Ident(FldP), "==", Lit("num", 3)),
   Bin("acmp", Ident(FldQ), "in", Arr(<<>>, <<>>, Some(FldI)))}

Rules ==
  Operands \cup
  {Bin("scmp", l, op, r) : l \in Operands, op \in ScalarOps, r \in Operands}
  \cup
  {Bin("acmp", l, op, r) : l \in Operands, op \in {"in", "notin"},
                           r \in Arrays}
  \cup
  {Bin("logic", l, op, r) : l \in LogicOperands,
                            op \in {"||", "or", "&&", "and", "??"},
                            r \in LogicOperands}

RECURSIVE NumIdents(_)
\* the identifiers of a term: no compile calls RandString more often
NumIdents(d) ==
  CASE d.k \in {"logic", "scmp", "acmp", "bit"} ->
         NumIdents(d.l) + NumIdents(d.r)
    [] d.k \in {"un", "sub"} -> NumIdents(d.x)
    [] d.k = "ident" -> 1
    [] d.k = "array" -> IF d.id = None THEN 0 ELSE 1
    [] OTHER -> 0

Oracles(n) == [1..n -> RandStrings]

\* ASTs that a caller builds by hand rather than by the parser: a pointer
\* field left nil, an empty Primary, a value that is no node of the grammar
FieldOperands ==
  {Ident(FldQ), Ident(FldP), Ident(FldF), Ident(FldS), Ident(FldI),
   Ident(FldT), Lit("num", 3)}

ScalarBase ==
  {Bin("scmp", l, "==", r) : l \in FieldOperands, r \in FieldOperands}

ArrayBase ==
  {Bin("acmp", l, "in", Arr(<<>>, <<>>, Some(v))) :
     l \in FieldOperands, v \in {FldT, FldS, FldI}}

LogicBase ==
  {Bin("logic", l, "||", Ident(FldF)) : l \in {Ident(FldF), Ident(FldQ)}}

BitBase ==
  {Bin("bit", l, "&", Lit("num", 3)) : l \in {Ident(FldQ), Ident(FldP)}}

HandBuilt ==
  {[Parse(d, 1, "Comparison") EXCEPT
      !.ScalarComparison = Some([Deref(@) EXCEPT !.Op = None])] :
     d \in ScalarBase}
  \cup
  {[Parse(d, 1, "Comparison") EXCEPT
      !.ScalarComparison = Some([Deref(@) EXCEPT !.Next = NilNode])] :
     d \in ScalarBase}
  \cup
  {[Parse(d, 1, "Comparison") EXCEPT
      !.ArrayComparison = Some([Deref(@) EXCEPT !.Op = None])] :
     d \in ArrayBase}
  \cup
  {[Parse(d, 1, "Expression") EXCEPT !.Next = None] : d \in LogicBase}
  \cup
  {[Parse(d, 1, "BitOperation") EXCEPT !.Next = None] : d \in BitBase}
  \cup
  {[Parse(d, 1, "Unary") EXCEPT !.Primary = NilNode] : d \in FieldOperands}
  \cup
  {PrimaryNode(1), NilNode, [type |-> "Unknown"]}

----------------------------------------------------------------------------
(* The logs sender and its TCP destinations (package tcp, package sender) *)

Reliable == "reliable"

Unreliable == "unreliable"

Destinations == {Reliable, Unreliable}

\* NewDestination(endpoint, useProto, destinationsContext, shouldRetry): the
\* reliable destination retries, the unreliable one does not
shouldRetry(d) == d = Reliable

NoPayload == [id |-> 0, framed |-> TRUE]

\* a Destination after NewDestination and Start.  input, isRetrying: the
\* channels of Start.  pc: where the goroutine of Start is ("range": at the
\* head of the loop over input, "send": in the loop of sendAndRetry,
\* "output": at `output <- payload`, "done": returned).  conn: conn # nil.
\* failing: the last Write of the payload in hand failed and the loop went
\* on.  sent, dropped: the payloads counted by metrics.LogsSent and
\* metrics.DestinationLogsDropped.  output: the payloads sent to output.
\* closedNil: CloseConnection was called with a nil connection.  written:
\* the payloads whose frame a Write took.  retried: the payloads of which a
\* Write failed and the loop went on.
NewDestination ==
  [input |-> <<>>, inputClosed |-> FALSE,
   isRetrying |-> <<>>, isRetryingClosed |-> FALSE,
   pc |-> "range", payload |-> NoPayload, conn |-> FALSE, failing |-> FALSE,
   sent |-> <<>>, dropped |-> {}, output |-> <<>>, closedNil |-> FALSE,
   written |-> {}, retried |-> {}]

\* a Sender after NewSender and Start.  next: the payloads read from its
\* input so far, plus one.  retrying: what it last read from isRetrying of
\* each destination.  handed: the payloads it put on the input of each
\* destination.
NewSender ==
  [next |-> 1, stopped |-> FALSE,
   retrying |-> [d \in Destinations |-> FALSE],
   handed |-> [d \in Destinations |-> <<>>]]

\* the servers answer, the destinations context is started
NewEnv == [up |-> [d \in Destinations |-> TRUE], cancelled |-> FALSE]

\* incrementErrors(drop): the payload in hand is counted as dropped
incrementErrors(dst, drop) ==
  IF drop THEN [dst EXCEPT !.dropped = @ \cup {dst.payload.id}] ELSE dst

\* connManager.CloseConnection(d.conn); d.conn = nil
CloseConnection(dst) ==
  [dst EXCEPT !.closedNil = @ \/ ~dst.conn, !.conn = FALSE]

\* lines 99-105: the payload is counted as sent and goes to output
CountSent(dst) ==
  [dst EXCEPT !.sent = Append(@, dst.payload.id), !.pc = "output",
              !.failing = FALSE]

\* Write with a failed Write never retried
Write_NoRetry(d, dst, ok) ==
  IF ok THEN CountSent([dst EXCEPT !.written = @ \cup {dst.payload.id}])
  ELSE CountSent(incrementErrors(CloseConnection(dst), TRUE))

\* lines 82-97: d.conn.Write(frame) on the open connection
Write(d, dst, ok) ==
  IF ok THEN CountSent([dst EXCEPT !.written = @ \cup {dst.payload.id}])
  ELSE IF shouldRetry(d)
  THEN [incrementErrors(CloseConnection(dst), FALSE) EXCEPT
          !.failing = TRUE, !.retried = @ \cup {dst.payload.id}]
  ELSE CountSent(incrementErrors(CloseConnection(dst), TRUE))

\* lines 71-80: the frame of the payload
Delimit(d, dst, ok) ==
  IF ~dst.payload.framed
  THEN [incrementErrors(dst, TRUE) EXCEPT !.pc = "range", !.failing = FALSE]
  ELSE Write(d, dst, ok)

\* one turn of the loop of sendAndRetry (lines 58-97); cancelled: the
\* destinations context is cancelled, ok: the server takes the frame
sendAndRetry(d, dst, cancelled, ok) ==
  IF ~dst.conn
  THEN IF cancelled
       THEN [incrementErrors(dst, TRUE) EXCEPT
               !.pc = "range", !.failing = FALSE]
       ELSE Delimit(d, [dst EXCEPT !.conn = TRUE], ok)
  ELSE Delimit(d, dst, ok)

\* lines 49-50: the goroutine of Start reads a payload from input
Receive(d) ==
  /\ dest[d].pc = "range" /\ dest[d].input # <<>>
  /\ dest' = [dest EXCEPT ![d].payload = Head(dest[d].input),
                          ![d].input = Tail(dest[d].input),
                          ![d].pc = "send"]
  /\ UNCHANGED <<sender, env, compilerVars, otherVars>>

\* lines 58-97: a turn of the loop of sendAndRetry, up to the Write
Send(d) ==
  /\ dest[d].pc = "send"
  /\ dest' = [dest EXCEPT
               ![d] = sendAndRetry(d, dest[d], env.cancelled, env.up[d])]
  /\ UNCHANGED <<sender, env, compilerVars, otherVars>>

\* lines 99-110: `output <- payload`, then the connection is reset if
\* connManager.ShouldReset says so
Output(d) ==
  /\ dest[d].pc = "output"
  /\ \E reset \in BOOLEAN :
       LET out == [dest[d] EXCEPT !.output = Append(@, dest[d].payload.id),
                                  !.pc = "range"]
       IN dest' = [dest EXCEPT
                     ![d] = IF reset THEN CloseConnection(out) ELSE out]
  /\ UNCHANGED <<sender, env, compilerVars, otherVars>>

\* lines 49-54: input is closed and drained: close(isRetrying)
Finish(d) ==
  /\ dest[d].pc = "range" /\ dest[d].input = <<>> /\ dest[d].inputClosed
  /\ dest' = [dest EXCEPT ![d].isRetryingClosed = TRUE, ![d].pc = "done"]
  /\ UNCHANGED <<sender, env, compilerVars, otherVars>>

\* what the sender reads from isRetrying of d without blocking
ReadRetrying(d) ==
  IF dest[d].isRetrying # <<>> THEN Head(dest[d].isRetrying)
  ELSE sender.retrying[d]

\* the sender reads a payload from its input and hands it to the
\* destinations: to the reliable one unless that one has reported that it
\* is retrying, and then to the unreliable one; while the reliable one is
\* reported retrying the payload waits
Forward ==
  /\ ~sender.stopped /\ sender.next <= MaxPayloads
  /\ ~ReadRetrying(Reliable)
  /\ \A d \in Destinations : Len(dest[d].input) < BufferSize
  /\ \E framed \in BOOLEAN :
       LET payload == [id |-> sender.next, framed |-> framed]
       IN /\ dest' = [d \in Destinations |->
                       [dest[d] EXCEPT !.input = Append(@, payload),
                                       !.isRetrying = <<>>]]
          /\ sender' = [sender EXCEPT
                          !.next = @ + 1,
                          !.retrying = [d \in Destinations |->
                                          ReadRetrying(d)],
                          !.handed = [d \in Destinations |->
                                        Append(@[d], payload.id)]]
  /\ UNCHANGED <<env, compilerVars, otherVars>>

\* Sender.Stop: the inputs of the destinations are closed
Stop ==
  /\ ~sender.stopped
  /\ sender' = [sender EXCEPT !.stopped = TRUE]
  /\ dest' = [d \in Destinations |-> [dest[d] EXCEPT !.inputClosed = TRUE]]
  /\ UNCHANGED <<env, compilerVars, otherVars>>

\* the server of a destination starts to fail or works again
ChangeStatus(d) ==
  /\ env' = [env EXCEPT !.up[d] = ~@]
  /\ UNCHANGED <<sender, dest, compilerVars, otherVars>>

\* the destinations context is cancelled
Cancel ==
  /\ ~env.cancelled
  /\ env' = [env EXCEPT !.cancelled = TRUE]
  /\ UNCHANGED <<sender, dest, compilerVars, otherVars>>

----------------------------------------------------------------------------
(* The configPoller (package autodiscovery) *)

\* integration.Config values, compared with Equal
Configs == {"x", "y", "z"}

\* what provider.Collect may return
ConfigLists == UNION {[1..n -> Configs] : n \in 0..MaxFetched}

\* a call of a method of AutoConfig
Call(name, arg) == [name |-> name, arg |-> arg]

\* what the last turn of the ticker case did: the answers of the provider,
\* pd.configs before it, the results of collect, the calls made on ac
NoTick ==
  [polled |-> FALSE, upToDate |-> FALSE, failed |-> FALSE, old |-> <<>>,
   fetched |-> <<>>, newConfigs |-> <<>>, removedConfigs |-> <<>>,
   calls |-> <<>>]

\* no configPoller yet.  pc: where the goroutine of poll is ("none": not
\* started, "select": at the select, "returned").  stop: what became of the
\* last call of stop ("returned", or "blocked" in the send on stopOn).
\* stopWhilePolling: canPoll and isPolling held when stop was called.
NoPoller ==
  [made |-> FALSE, canPoll |-> FALSE, isPolling |-> FALSE, configs |-> <<>>,
   stopChan |-> "nil", healthHandle |-> "nil", ticker |-> "nil",
   pc |-> "none", stop |-> "none", stopOn |-> "nil",
   stopWhilePolling |-> FALSE, tick |-> NoTick]

newConfigPoller(canPoll) ==
  [NoPoller EXCEPT !.made = TRUE, !.canPoll = canPoll]

contains(pd, c) == \E i \in DOMAIN pd.configs : pd.configs[i] = c

\* stop(): returns at once, or sends on stopChan
stop(pd) ==
  IF ~pd.canPoll \/ pd.isPolling
  THEN [pd EXCEPT !.stop = "returned",
                  !.stopWhilePolling = pd.canPoll /\ pd.isPolling]
  ELSE [pd EXCEPT !.stop = "blocked", !.stopOn = pd.stopChan,
                  !.stopWhilePolling = pd.canPoll /\ pd.isPolling]

\* start(ac)
start(pd) ==
  IF ~pd.canPoll THEN pd
  ELSE [pd EXCEPT !.stopChan = "open", !.healthHandle = "registered",
                  !.isPolling = TRUE, !.pc = "select", !.ticker = "running"]

\* collect with pd.configs replaced before the new configurations are
\* looked for
collect_StoredFirst(pd, fetched, err) ==
  IF err THEN [pd |-> pd, newConf |-> <<>>, removedConf |-> <<>>]
  ELSE LET pd1 == [pd EXCEPT !.configs = fetched]
       IN [pd |-> pd1,
           newConf |-> SelectSeq(fetched, LAMBDA c : ~contains(pd1, c)),
           removedConf |-> SelectSeq(pd.configs, LAMBDA c : ~contains(pd1, c))]

\* collect(ctx): fetched, err are what provider.Collect returns
collect(pd, fetched, err) ==
  IF err THEN [pd |-> pd, newConf |-> <<>>, removedConf |-> <<>>]
  ELSE LET pd1 == [pd EXCEPT !.configs = fetched]
       IN [pd |-> pd1,
           newConf |-> SelectSeq(fetched, LAMBDA c : ~contains(pd, c)),
           removedConf |-> SelectSeq(pd.configs, LAMBDA c : ~contains(pd1, c))]

RECURSIVE ProcessNew(_)
\* lines 111-115: the loop over newConfigs
ProcessNew(newConfigs) ==
  IF newConfigs = <<>> THEN <<>>
  ELSE <<Call("processNewConfig", Head(newConfigs)),
         Call("schedule", Head(newConfigs))>> \o ProcessNew(Tail(newConfigs))

\* lines 97-115: collect, then the removed and the new configurations
pollCollected(pd, fetched, err, r) ==
  [r.pd EXCEPT !.tick =
     [polled |-> TRUE, upToDate |-> FALSE, failed |-> err,
      old |-> pd.configs, fetched |-> fetched,
      newConfigs |-> r.newConf, removedConfigs |-> r.removedConf,
      calls |-> <<Call("processRemovedConfigs", r.removedConf),
                  Call("removeConfigTemplates", r.removedConf)>>
                \o ProcessNew(r.newConf)]]

\* lines 85-115: the case <-ticker.C
pollTick(pd, upToDate, fetched, err) ==
  IF upToDate
  THEN [pd EXCEPT !.tick = [NoTick EXCEPT !.polled = TRUE, !.upToDate = TRUE,
                                          !.old = pd.configs]]
  ELSE pollCollected(pd, fetched, err, collect(pd, fetched, err))

\* the cases of the select of poll that can be taken: a send on a nil
\* channel never completes
ReadyCases(pd) ==
  {"ticker", "health"} \cup
  (IF pd.stop = "blocked" /\ pd.stopOn = "open" /\ pd.stopOn = pd.stopChan
   THEN {"stop"} ELSE {})

\* lines 75-117: one turn of the loop of poll; the case <-pd.stopChan lets
\* the blocked stop() go on to `pd.isPolling = false`
poll(pd, case, upToDate, fetched, err) ==
  CASE case = "health" -> pd
    [] case = "stop" ->
         [pd EXCEPT !.healthHandle = "deregistered", !.ticker = "stopped",
                    !.pc = "returned", !.stop = "returned",
                    !.isPolling = FALSE]
    [] OTHER -> pollTick(pd, upToDate, fetched, err)

\* newConfigPoller(provider, canPoll, interval)
NewPoller ==
  /\ ~poller.made
  /\ \E canPoll \in BOOLEAN : poller' = newConfigPoller(canPoll)
  /\ UNCHANGED <<compilerVars, senderVars, store>>

\* AutoConfig starts the poller, once
StartPoller ==
  /\ poller.made /\ poller.pc = "none"
  /\ poller' = start(poller)
  /\ UNCHANGED <<compilerVars, senderVars, store>>

\* a caller calls stop(), unless one is blocked in it
StopPoller ==
  /\ poller.made /\ poller.stop # "blocked"
  /\ poller' = stop(poller)
  /\ UNCHANGED <<compilerVars, senderVars, store>>

\* the goroutine of poll takes a case of its select
Poll ==
  /\ poller.pc = "select"
  /\ \E case \in ReadyCases(poller) : \E upToDate \in BOOLEAN :
       \E err \in BOOLEAN :
         \E fetched \in IF err THEN {<<>>} ELSE ConfigLists :
           poller' = poll(poller, case, upToDate, fetched, err)
  /\ UNCHANGED <<compilerVars, senderVars, store>>

PollerNext == NewPoller \/ StartPoller \/ StopPoller \/ Poll

----------------------------------------------------------------------------
(* The uptane remote stores (package uptane) *)

roleRoot == "root"

roleTargets == "targets"

roleSnapshot == "snapshot"

roleTimestamp == "timestamp"

TopRoles == {roleRoot, roleTargets, roleSnapshot, roleTimestamp}

\* a role of a delegated targets file
DelegatedRole == "d"

Versions == 0..MaxVersion

\* a metadata file of an update: its version and its bytes
Meta(r, v) == [Role |-> r, Version |-> v, Raw |-> <<r, v>>]

NoVersions == [v \in {} |-> <<>>]

newRemoteStore == [metas |-> [r \in TopRoles |-> NoVersions]]

resetRole(s, r) == [s EXCEPT !.metas = (r :> NoVersions) @@ @]

\* s.metas[r][version] = raw
SetMeta(s, r, version, raw) ==
  [s EXCEPT !.metas[r] = (version :> raw) @@ @]

latestVersion(s, r) ==
  IF DOMAIN s.metas[r] = {} THEN 0
  ELSE CHOOSE v \in DOMAIN s.metas[r] : \A w \in DOMAIN s.metas[r] : w <= v

\* what parseMetaPath makes of a path: an error, or a role and a version
MetaPath(r, version, versionSet) ==
  [err |-> FALSE, role |-> r, version |-> version, versionSet |-> versionSet]

BadPath == [err |-> TRUE, role |-> "", version |-> 0, versionSet |-> FALSE]

ErrNotFound == [err |-> "ErrNotFound", raw |-> <<>>]

GetMetaVersion(s, metaPath, version) ==
  IF version \notin DOMAIN s.metas[metaPath.role] THEN ErrNotFound
  ELSE [err |-> "nil", raw |-> s.metas[metaPath.role][version]]

\* GetMeta(path), metaPath being parseMetaPath(path)
GetMeta(s, metaPath) ==
  IF metaPath.err THEN [err |-> "ParseError", raw |-> <<>>]
  ELSE IF metaPath.role \notin DOMAIN s.metas THEN ErrNotFound
  ELSE IF ~metaPath.versionSet
  THEN IF metaPath.role # roleTimestamp THEN ErrNotFound
       ELSE GetMetaVersion(s, metaPath, latestVersion(s, metaPath.role))
  ELSE GetMetaVersion(s, metaPath, metaPath.version)

RECURSIVE SetRoots(_, _)
\* the loop over metas.Roots
SetRoots(s, roots) ==
  IF roots = <<>> THEN s
  ELSE SetRoots(SetMeta(s, roleRoot, Head(roots).Version, Head(roots).Raw),
                Tail(roots))

\* the one version of role r is replaced by that of meta, unless meta is nil
Replace(s, r, meta) ==
  IF meta = None THEN s
  ELSE SetMeta(resetRole(s, r), r, Deref(meta).Version, Deref(meta).Raw)

RECURSIVE SetDelegated(_, _)
\* the loop over metas.DelegatedTargets
SetDelegated(s, delegated) ==
  IF delegated = <<>> THEN s
  ELSE SetDelegated(Replace(s, Head(delegated).Role, Some(Head(delegated))),
                    Tail(delegated))

\* remoteStoreDirector.update: update is nil or has DirectorMetas, nil or not
updateDirector(s, update) ==
  IF update = None THEN s
  ELSE IF Deref(update).DirectorMetas = None THEN s
  ELSE LET metas == Deref(Deref(update).DirectorMetas)
       IN Replace(Replace(Replace(SetRoots(s, metas.Roots),
                                  roleTimestamp, metas.Timestamp),
                          roleSnapshot, metas.Snapshot),
                  roleTargets, metas.Targets)

\* remoteStoreConfig.update
updateConfig(s, update) ==
  IF update = None THEN s
  ELSE IF Deref(update).ConfigMetas = None THEN s
  ELSE LET metas == Deref(Deref(update).ConfigMetas)
       IN Replace(Replace(Replace(SetDelegated(SetRoots(s, metas.Roots),
                                               metas.DelegatedTargets),
                                  roleTimestamp, metas.Timestamp),
                          roleSnapshot, metas.Snapshot),
                  roleTargets, metas.TopTargets)

\* the updates of the backend
OptMeta(r) == {None} \cup {Some(Meta(r, v)) : v \in Versions}

RootLists == {<<>>} \cup {<<Meta(roleRoot, v)>> : v \in Versions}

DelegatedLists ==
  {<<>>} \cup
  {<<Meta(r, v)>> : r \in {DelegatedRole, roleRoot}, v \in Versions}

DirectorUpdates ==
  {None, Some([DirectorMetas |-> None])} \cup
  {Some([DirectorMetas |->
           Some([Roots |-> ro, Timestamp |-> ts, Snapshot |-> sn,
                 Targets |-> tg])]) :
     ro \in RootLists, ts \in OptMeta(roleTimestamp),
     sn \in OptMeta(roleSnapshot), tg \in OptMeta(roleTargets)}

ConfigUpdates ==
  {None, Some([ConfigMetas |-> None])} \cup
  {Some([ConfigMetas |->
           Some([Roots |-> ro, DelegatedTargets |-> de, Timestamp |-> ts,
                 Snapshot |-> sn, TopTargets |-> tg])]) :
     ro \in RootLists, de \in DelegatedLists, ts \in OptMeta(roleTimestamp),
     sn \in OptMeta(roleSnapshot), tg \in OptMeta(roleTargets)}

\* no store yet.  s: the remoteStore.  roots: the root versions received so
\* far.  carried: for each role the version of the last update that had it.
NoStore ==
  [kind |-> "none", s |-> newRemoteStore, roots |-> {},
   carried |-> [r \in TopRoles \ {roleRoot} |-> None]]

\* the metas of an update as a record with Roots, Timestamp, Snapshot and
\* Targets, none when the update is ignored
MetasOf(update) ==
  IF update = None THEN None
  ELSE IF "DirectorMetas" \in DOMAIN Deref(update)
  THEN Deref(update).DirectorMetas
  ELSE IF Deref(update).ConfigMetas = None THEN None
  ELSE LET m == Deref(Deref(update).ConfigMetas)
       IN Some([Roots |-> m.Roots, Timestamp |-> m.Timestamp,
                Snapshot |-> m.Snapshot, Targets |-> m.TopTargets])

Carried(old, meta) == IF meta = None THEN old ELSE Some(Deref(meta).Version)

\* what the update adds to the history of the store
Received(st, update) ==
  IF MetasOf(update) = None THEN st
  ELSE LET m == Deref(MetasOf(update))
       IN [st EXCEPT
             !.roots = @ \cup {m.Roots[i].Version : i \in DOMAIN m.Roots},
             !.carried =
               [r \in TopRoles \ {roleRoot} |->
                  Carried(@[r], CASE r = roleTimestamp -> m.Timestamp
                                  [] r = roleSnapshot -> m.Snapshot
                                  [] OTHER -> m.Targets)]]

newRemoteStoreDirector ==
  /\ store.kind = "none"
  /\ store' = [store EXCEPT !.kind = "director"]
  /\ UNCHANGED <<compilerVars, senderVars, poller>>

newRemoteStoreConfig ==
  /\ store.kind = "none"
  /\ store' = [store EXCEPT !.kind = "config"]
  /\ UNCHANGED <<compilerVars, senderVars, poller>>

UpdateDirector ==
  /\ store.kind = "director"
  /\ \E update \in DirectorUpdates :
       store' = [Received(store, update) EXCEPT
                   !.s = updateDirector(store.s, update)]
  /\ UNCHANGED <<compilerVars, senderVars, poller>>

UpdateConfig ==
  /\ store.kind = "config"
  /\ \E update \in ConfigUpdates :
       store' = [Received(store, update) EXCEPT
                   !.s = updateConfig(store.s, update)]
  /\ UNCHANGED <<compilerVars, senderVars, poller>>

StoreNext ==
  newRemoteStoreDirector \/ newRemoteStoreConfig \/ UpdateDirector
    \/ UpdateConfig

----------------------------------------------------------------------------
(* The compile of one rule as a state machine *)

NoResult == [ev |-> NilEval, pos |-> NoPos, err |-> NoErr]

\* the AST being compiled, whether the parser built it, and what RandString
\* returns during the compile
NoRule == [node |-> NilNode, parsed |-> FALSE, rand |-> <<>>]

ResultOf(r) == [ev |-> r.ev, pos |-> r.pos, err |-> r.err]

\* the CompileState that is kept; the random source is not part of it
StateOf(r) == [r.st EXCEPT !.rand = <<>>]

Init ==
  /\ state = NewState(<<>>)
  /\ result = NoResult
  /\ rule = NoRule
  /\ sender = NewSender
  /\ dest = [d \in Destinations |-> NewDestination]
  /\ env = NewEnv
  /\ poller = NoPoller
  /\ store = NoStore

\* a rule is compiled with a fresh CompileState
CompileRule ==
  /\ state = NewState(<<>>) /\ result = NoResult /\ rule = NoRule
  /\ \E d \in Rules : \E rs \in Oracles(NumIdents(d)) :
       LET node == Parse(d, 1, LevelOf(d))
           r == nodeToEvaluator(node, Opts, NewState(rs))
       IN /\ rule' = [node |-> node, parsed |-> TRUE, rand |-> rs]
          /\ result' = ResultOf(r)
          /\ state' = StateOf(r)
          /\ UNCHANGED <<senderVars, otherVars>>

\* an AST built by hand is compiled with a fresh CompileState
CompileNode ==
  /\ state = NewState(<<>>) /\ result = NoResult /\ rule = NoRule
  /\ \E node \in HandBuilt :
       LET r == nodeToEvaluator(node, Opts, NewState(<<>>))
       IN /\ rule' = [node |-> node, parsed |-> FALSE, rand |-> <<>>]
          /\ result' = ResultOf(r)
          /\ state' = StateOf(r)
          /\ UNCHANGED <<senderVars, otherVars>>

\* the compile of a rule meets one more identifier; an error ends the compile
Resolve ==
  /\ rule = NoRule
  /\ IsNil(result.err)
  /\ Len(state.log) < MaxIdents
  /\ \E id \in Idents : \E rnd \in RandStrings :
       LET r == identToEvaluator([Pos |-> Len(state.log) + 1, Ident |-> id],
                                 Opts, [state EXCEPT !.rand = <<rnd>>])
       IN /\ result' = ResultOf(r)
          /\ state' = StateOf(r)
          /\ rule' = rule
          /\ UNCHANGED <<senderVars, otherVars>>

\* the CompileState is discarded after the compile
Discard ==
  /\ state # NewState(<<>>) \/ rule # NoRule
  /\ state' = NewState(<<>>)
  /\ result' = NoResult
  /\ rule' = NoRule
  /\ UNCHANGED <<senderVars, otherVars>>

Next == CompileRule \/ CompileNode \/ Resolve \/ Discard

Spec == Init /\ [][Next]_vars

\* the sender and its two destinations
SenderNext ==
  \/ Forward
  \/ Stop
  \/ Cancel
  \/ \E d \in Destinations :
       Receive(d) \/ Send(d) \/ Output(d) \/ Finish(d) \/ ChangeStatus(d)

SenderSpec == Init /\ [][SenderNext]_vars

PollerSpec == Init /\ [][PollerNext]_vars

StoreSpec == Init /\ [][StoreNext]_vars

\* the goroutine of Start of each destination keeps running
SenderLive ==
  /\ SenderSpec
  /\ \A d \in Destinations :
       /\ WF_vars(Receive(d)) /\ WF_vars(Send(d))
       /\ WF_vars(Output(d)) /\ WF_vars(Finish(d))

----------------------------------------------------------------------------
(* Properties of identifier resolution *)

Log == state.log

Registers == state.registersInfo

\* the register was omitted or written `_`
Anonymous(e) == e.regID0 = Empty \/ e.regID0 = <<"_">>

\* the resolution found an iterator and bound its register
Bound(e) ==
  /\ e.via = "field" /\ e.iterator # Empty
  /\ e.err.kind \notin {"RegisterNameNotAllowed", "RegisterMultipleFields"}

\* two resolved identifiers under one iterator, both with the anonymous
\* register
SameIteratorPairs ==
  {p \in (DOMAIN Log) \X (DOMAIN Log) :
     /\ p[1] < p[2]
     /\ Bound(Log[p[1]]) /\ Bound(Log[p[2]])
     /\ IsNil(Log[p[1]].err) /\ IsNil(Log[p[2]].err)
     /\ Anonymous(Log[p[1]]) /\ Anonymous(Log[p[2]])
     /\ Log[p[1]].iterator = Log[p[2]].iterator}

\* C1 as stated: two identifiers under the same iterator prefix, both with
\* the anonymous register, are held by exactly one RegisterInfo entry whose
\* subfield set contains both field paths.
C1_OneEntry ==
  \A p \in SameIteratorPairs :
    LET ids == {Log[p[1]].regID, Log[p[2]].regID}
    IN /\ Cardinality(ids) = 1
       /\ \A r \in ids :
            /\ r \in DOMAIN Registers
            /\ {Log[p[1]].field, Log[p[2]].field} \subseteq
                 Registers[r].subFields

\* C1 amended: each of two such identifiers is given a generated register
\* id; each field path is in the subfield set of the entry under the id
\* generated for its identifier, and an entry's subfield set holds exactly
\* the field paths of the identifiers that were given its id, so that the
\* two paths share an entry only when the generated ids coincide.
C1_EntryPerGeneratedId ==
  \A p \in SameIteratorPairs :
    \A k \in {p[1], p[2]} :
      LET r == Log[k].regID
      IN /\ r \in RandStrings
         /\ r \in DOMAIN Registers
         /\ Log[k].field \in Registers[r].subFields
         /\ Registers[r].subFields =
              {Log[j].field : j \in {i \in DOMAIN Log :
                                       Bound(Log[i]) /\ Log[i].regID = r}}

\* C1 witness: two paths under iterator `a`, anonymous registers, held by
\* two entries
C1_Witness ==
  \E p \in SameIteratorPairs :
    /\ Log[p[1]].field # Log[p[2]].field
    /\ Log[p[1]].regID # Log[p[2]].regID
    /\ Cardinality(DOMAIN Registers) = 2

\* the identifier names a register other than `_`
Explicit(e) ==
  e.via = "field" /\ IsNil(extractField(e.ident).err) /\ ~Anonymous(e)

\* C2 as stated: of two identifiers that name the same register on
\* different iterator fields, the first resolves and the second fails with
\* the register-conflict error.
C2_ConflictOnSecond ==
  \A i \in DOMAIN Log :
    (Explicit(Log[i]) /\ Log[i].itField \in ModelIterators) =>
      IF \E j \in 1..(i - 1) :
            /\ Explicit(Log[j]) /\ Log[j].regID0 = Log[i].regID0
            /\ Log[j].itField # Log[i].itField
      THEN Log[i].err.kind = "RegisterMultipleFields"
      ELSE IsNil(Log[i].err)

\* C2 amended: `a[reg1]` fails as the first identifier already, with the
\* register-name-not-allowed error, and nothing is resolved after it; the
\* register-conflict error is only returned to an identifier with the
\* anonymous register whose generated id is already recorded for another
\* iterator field.
C2_NameRejectedFirst ==
  /\ \A i \in DOMAIN Log :
       (Explicit(Log[i]) /\ Log[i].itField \in ModelIterators) =>
         /\ Log[i].err.kind = "RegisterNameNotAllowed"
         /\ i = Len(Log)
  /\ \A i \in DOMAIN Log :
       Log[i].err.kind = "RegisterMultipleFields" =>
         /\ Anonymous(Log[i])
         /\ Log[i].regID \in DOMAIN Registers
         /\ Registers[Log[i].regID].field # Log[i].itField

\* C2 witness: `a[r].x` was resolved and rejected for its register name
C2_Witness ==
  \E i \in DOMAIN Log :
    /\ Log[i].ident = IdAR
    /\ Log[i].err.kind = "RegisterNameNotAllowed"

\* C3 as stated: every identifier with an explicit register name other than
\* `_` fails with the register-name-not-allowed error.
C3_AlwaysNameNotAllowed ==
  \A i \in DOMAIN Log :
    Explicit(Log[i]) => Log[i].err.kind = "RegisterNameNotAllowed"

\* C3 amended: an identifier (not a constant or macro name) with an explicit
\* register name other than `_` always fails: with the
\* register-name-not-allowed error when the Model has an iterator for its
\* iterator field, and with the Model's GetIterator error when it has none.
C3_NameNotAllowedIfIterator ==
  \A i \in DOMAIN Log :
    Explicit(Log[i]) =>
      /\ Log[i].itField # Empty
      /\ IF Log[i].itField \in ModelIterators
         THEN Log[i].err.kind = "RegisterNameNotAllowed"
         ELSE Log[i].err = ErrIteratorNotFound

\* C3 witness: an identifier with register `r` on an iterator field was
\* rejected for the name, after an earlier identifier had bound a register
C3_Witness ==
  \E i \in DOMAIN Log :
    /\ i > 1
    /\ Explicit(Log[i]) /\ Log[i].regID0 = <<"r">>
    /\ Log[i].err.kind = "RegisterNameNotAllowed"
    /\ DOMAIN Registers # {}

----------------------------------------------------------------------------
(* Properties of the compile of a comparison *)

Node == rule.node

Succeeded == IsNil(result.err) /\ result.ev.kind # "nil"

IsScalarRule ==
  /\ Node.type = "Comparison" /\ Node.ScalarComparison # None
  /\ Deref(Node.ScalarComparison).Op # None

IsArrayRule ==
  /\ Node.type = "Comparison" /\ Node.ArrayComparison # None
  /\ Deref(Node.ArrayComparison).Op # None

ScalarOp == Deref(Deref(Node.ScalarComparison).Op)

ArrayOp == Deref(Deref(Node.ArrayComparison).Op)

\* the operands of the comparison, compiled in the order of the compile
Left == nodeToEvaluator(Node.BitOperation, Opts, NewState(rule.rand))

Right ==
  nodeToEvaluator(IF Node.ScalarComparison # None
                  THEN Deref(Node.ScalarComparison)
                  ELSE Deref(Node.ArrayComparison),
                  Opts, Left.st)

OperandsCompiled == IsNil(Left.err) /\ IsNil(Right.err)

\* a scalar comparison of the two kinds, both operands compiled
ScalarOf(lk, rk) ==
  /\ IsScalarRule /\ OperandsCompiled
  /\ Left.ev.kind \in lk /\ Right.ev.kind \in rk

\* the position of the right operand in the rule
RightOperandPos == Deref(Node.ScalarComparison).Next.Pos

\* C4 as stated: Int == Int and Int != Int always compile to IntEquals
\* (negated for !=), whatever the duration flags.
C4_IntEqualityAlways ==
  (ScalarOf({"Int"}, {"Int"}) /\ ScalarOp \in {"==", "!="}) =>
    /\ Succeeded
    /\ result.ev.kind = "Bool"
    /\ result.ev.op = "IntEquals"
    /\ result.ev.neg = (ScalarOp = "!=")

\* C5 as stated: for Int < <= > >= Int the duration comparison is selected
\* exactly when the left operand carries the duration flag.
C5_LeftSelects ==
  (ScalarOf({"Int"}, {"Int"}) /\ ScalarOp \in OrderingOps) =>
    /\ Succeeded
    /\ result.ev.op =
         Ordering(IF Left.ev.isDuration THEN "Duration" ELSE "", ScalarOp)

\* C5 amended: for Int < <= > >= Int the duration comparison is selected
\* exactly when the right operand carries the duration flag, and the plain
\* numeric comparison otherwise.
C5_RightSelects ==
  (ScalarOf({"Int"}, {"Int"}) /\ ScalarOp \in OrderingOps) =>
    /\ Succeeded
    /\ result.ev.kind = "Bool"
    /\ result.ev.op =
         Ordering(IF Right.ev.isDuration THEN "Duration" ELSE "", ScalarOp)

\* C5 witness: a plain Int compared with a duration by the duration function
C5_Witness ==
  /\ ScalarOf({"Int"}, {"Int"}) /\ ScalarOp = "<"
  /\ ~Left.ev.isDuration /\ Right.ev.isDuration
  /\ result.ev.op = "DurationLesserThan"

PatternOps == {"=~", "!~"}

\* C6 as stated: String or StringArray =~ / !~ String fails with the
\* non-static-pattern error when the right operand is not static, and
\* otherwise compiles the pattern and returns a Bool evaluator.
C6_StaticAlwaysCompiles ==
  (ScalarOf({"String", "StringArray"}, {"String"}) /\ ScalarOp \in PatternOps)
  =>
    IF ~Right.ev.static
    THEN result.err.kind = "NonStaticPattern" /\ result.ev = NilEval
    ELSE Succeeded /\ result.ev.kind = "Bool" /\ result.ev.compiled

\* C6 amended: with a String right operand that is not static the compile
\* fails with the non-static-pattern error and no pattern is compiled; with a
\* static one the pattern is compiled during the compile and a Bool
\* evaluator is returned, unless the pattern does not compile, in which case
\* the compile fails with an error at the position of the comparison.
C6_StaticCompilesIfValid ==
  (ScalarOf({"String", "StringArray"}, {"String"}) /\ ScalarOp \in PatternOps)
  =>
    CASE ~Right.ev.static ->
           result.err.kind = "NonStaticPattern" /\ result.ev = NilEval
      [] Right.ev.static /\ (Right.ev.compiled \/ Right.ev.valid) ->
           /\ Succeeded /\ result.ev.kind = "Bool" /\ result.ev.compiled
           /\ result.ev.neg = (ScalarOp = "!~")
      [] OTHER ->
           result.err = NewError(Node.Pos) /\ result.ev = NilEval

\* C6 witness: a field matched against another field, rejected
C6_Witness ==
  /\ ScalarOf({"String", "StringArray"}, {"String"}) /\ ScalarOp = "=~"
  /\ ~Right.ev.static
  /\ result.err.kind = "NonStaticPattern"

\* C7: String == String uses the left operand's override if it has one, else
\* the right operand's if it has one, else StringEquals; String != =~ !~
\* String never use an override.
C7_OverrideOnlyForEquals ==
  ScalarOf({"String"}, {"String"}) =>
    /\ ScalarOp = "==" =>
         LET chosen == IF Left.ev.override # "none" THEN Left.ev
                       ELSE IF Right.ev.override # "none" THEN Right.ev
                       ELSE NilEval
         IN CASE chosen.override = "none" ->
                   Succeeded /\ result.ev.op = "StringEquals"
              [] chosen.override = "ok" ->
                   Succeeded /\ result.ev.op = "Override:" \o chosen.name
              [] OTHER -> result.err.kind = "Override"
    /\ ScalarOp \in {"!=", "=~", "!~"} =>
         /\ result.err.kind # "Override"
         /\ Succeeded => result.ev.op = "StringEquals"

\* C7 witness: both operands carry an override and the left one was used
C7_Witness ==
  /\ ScalarOf({"String"}, {"String"}) /\ ScalarOp = "=="
  /\ Left.ev.override = "ok" /\ Right.ev.override = "err"
  /\ Succeeded /\ result.ev.op = "Override:" \o Left.ev.name

\* C8: a scalar comparison with a String on the left and anything but a
\* String on the right fails with a type error expecting String, at the
\* position of the right operand.
C8_StringMismatchAtRight ==
  (IsScalarRule /\ OperandsCompiled /\ Left.ev.kind = "String"
     /\ Right.ev.kind # "String") =>
    /\ result.ev = NilEval
    /\ result.err = NewTypeError(RightOperandPos, "String")

\* C8 witness: a string literal compared with a unary minus on a number
C8_Witness ==
  /\ IsScalarRule /\ OperandsCompiled
  /\ Left.ev.kind = "String" /\ Right.ev.kind = "Int"
  /\ Deref(Node.ScalarComparison).Next.BitOperation.Unary.Op = Some("-")
  /\ result.err.kind = "TypeError" /\ result.err.pos = 3

----------------------------------------------------------------------------
(* Properties of the compile of a logical expression and of `in` *)

LogicalOps == {"||", "or", "&&", "and"}

IsLogicalRule ==
  /\ Node.type = "Expression" /\ Node.Op # None
  /\ Deref(Node.Op) \in LogicalOps

\* the operands of the expression, compiled in the order of the compile
LeftOfLogical == nodeToEvaluator(Node.Comparison, Opts, NewState(rule.rand))

RightOfLogical == nodeToEvaluator(Pointee(Node.Next), Opts, LeftOfLogical.st)

\* C9: `||`/`or`/`&&`/`and` compile, to a Bool evaluator, only if both
\* operands compile to Bool evaluators; when an operand compiles to another
\* kind the compile fails with a type error expecting Bool at the position of
\* that operand (the left one when both are of another kind).
C9_LogicalNeedsBool ==
  IsLogicalRule =>
    LET l == LeftOfLogical
        r == RightOfLogical
    IN /\ Succeeded =>
            /\ result.ev.kind = "Bool"
            /\ IsNil(l.err) /\ l.ev.kind = "Bool"
            /\ IsNil(r.err) /\ r.ev.kind = "Bool"
       /\ (IsNil(l.err) /\ l.ev.kind # "Bool") =>
            /\ result.ev = NilEval
            /\ result.err = NewTypeError(Node.Comparison.Pos, "Bool")
       /\ (IsNil(l.err) /\ l.ev.kind = "Bool" /\ IsNil(r.err)
             /\ r.ev.kind # "Bool") =>
            /\ result.ev = NilEval
            /\ result.err = NewTypeError(Deref(Node.Next).Comparison.Pos, "Bool")
       /\ (IsNil(l.err) /\ l.ev.kind = "Bool" /\ IsNil(r.err)
             /\ r.ev.kind = "Bool") =>
            /\ Succeeded
            /\ result.ev.op = IF Deref(Node.Op) \in {"||", "or"} THEN "Or"
                              ELSE "And"

\* C9 witness: a Bool on the left and an Int field on the right, rejected at
\* the position of the Int field
C9_Witness ==
  /\ IsLogicalRule
  /\ IsNil(LeftOfLogical.err) /\ LeftOfLogical.ev.kind = "Bool"
  /\ IsNil(RightOfLogical.err) /\ RightOfLogical.ev.kind = "Int"
  /\ result.err = NewTypeError(Deref(Node.Next).Comparison.Pos, "Bool")
  /\ Deref(Node.Next).Comparison.Pos > Node.Comparison.Pos

\* the (left kind, right kind) pairs that `in` / `notin` accept
InPairs ==
  {<<"Bool", "BoolArray">>, <<"String", "StringArray">>,
   <<"StringArray", "StringArray">>, <<"Int", "IntArray">>,
   <<"IntArray", "IntArray">>}

\* the array kind of the right side of `in`: a numeric array literal is an
\* array of Int
ArrayKind(ev) == IF ev.kind = "IntArrayValue" THEN "IntArray" ELSE ev.kind

\* C10 as stated: `in` / `notin` return a Bool evaluator exactly for the
\* pairs of InPairs, array literals included, and fail with a type error
\* naming array for every other pair.
C10_InPairs ==
  (IsArrayRule /\ OperandsCompiled) =>
    IF <<Left.ev.kind, ArrayKind(Right.ev)>> \in InPairs
    THEN Succeeded /\ result.ev.kind = "Bool"
    ELSE result.ev = NilEval /\ result.err.kind = "TypeError"
         /\ result.err.expected = "Array"

----------------------------------------------------------------------------
(* Properties of `notin`, of the field set and of the errors *)

\* the rule with `in` and `notin` exchanged
Exchanged ==
  [Node EXCEPT !.ArrayComparison =
     Some([Deref(@) EXCEPT
             !.Op = Some(IF Deref(@) = "in" THEN "notin" ELSE "in")])]

\* the compile of the exchanged rule, from a fresh CompileState
ExchangedResult == nodeToEvaluator(Exchanged, Opts, NewState(rule.rand))

\* what a Bool evaluator yields for a Context for which its operator
\* function yields base
Yield(ev, base) == IF ev.neg THEN ~base ELSE base

\* C11: for every accepted pairing of x and A, `x notin A` compiles to the
\* negation of what `x in A` compiles to: the same operator function on the
\* same operands, and opposite booleans for the same Context.
C11_NotinNegatesIn ==
  (IsArrayRule /\ ArrayOp \in {"in", "notin"} /\ Succeeded) =>
    LET o == ExchangedResult
    IN /\ IsNil(o.err) /\ o.ev.kind = "Bool" /\ result.ev.kind = "Bool"
       /\ o.ev.op = result.ev.op
       /\ o.ev.lhs = result.ev.lhs /\ o.ev.rhs = result.ev.rhs
       /\ result.ev.neg = (ArrayOp = "notin")
       /\ \A base \in BOOLEAN :
            Yield(o.ev, base) = ~Yield(result.ev, base)

\* C11 witness: a String `notin` a StringArray compiled to a negated
\* ArrayStringContains, `in` to the plain one
C11_Witness ==
  /\ IsArrayRule /\ ArrayOp = "notin" /\ Succeeded
  /\ result.ev.op = "ArrayStringContains" /\ result.ev.neg
  /\ IsNil(ExchangedResult.err) /\ ~ExchangedResult.ev.neg

\* the successful resolutions of the compile
Resolved == {i \in DOMAIN Log : IsNil(Log[i].err)}

\* the name an identifier was resolved to
ResolvedName(e) == IF e.via = "field" THEN e.field ELSE e.ident

\* C12 as stated: every successful identifier resolution, whether it ends in
\* a constant, a macro or a Model field, has its resolved name in the field
\* set.
C12_EveryResolutionRecorded ==
  \A i \in Resolved : ResolvedName(Log[i]) \in state.fields

\* C12 amended: every successful resolution that ends in a Model field adds
\* the resolved field name to the field set, one that ends in a constant or
\* a macro adds nothing: the field set holds exactly the resolved field
\* names of the identifiers resolved to Model fields.
C12_FieldResolutionRecorded ==
  state.fields = {Log[i].field : i \in {j \in Resolved : Log[j].via = "field"}}

\* C12 witness: a constant and a Model field were resolved, and only the
\* field is in the field set
C12_Witness ==
  \E i \in Resolved : \E j \in Resolved :
    /\ Log[i].via = "constant" /\ Log[j].via = "field"
    /\ Log[j].field \in state.fields
    /\ Log[i].ident \notin state.fields

\* the compile returned an error
Failed == ~IsNil(result.err) /\ ~Panicked(result.err)

IsComparisonRule == IsScalarRule \/ IsArrayRule

\* C13: when the compile returns an error the evaluator is nil, and an
\* error of an operand of a comparison or of a logical expression is the
\* error of the compile, the left operand's first.
C13_ErrorMeansNoEvaluator ==
  /\ Failed => result.ev = NilEval
  /\ (IsComparisonRule /\ ~IsNil(Left.err)) =>
       result.err = Left.err /\ result.ev = NilEval
  /\ (IsComparisonRule /\ IsNil(Left.err) /\ ~IsNil(Right.err)) =>
       result.err = Right.err /\ result.ev = NilEval
  /\ (IsLogicalRule /\ ~IsNil(LeftOfLogical.err)) =>
       result.err = LeftOfLogical.err /\ result.ev = NilEval
  /\ (IsLogicalRule /\ IsNil(LeftOfLogical.err)
        /\ LeftOfLogical.ev.kind = "Bool" /\ ~IsNil(RightOfLogical.err)) =>
       result.err = RightOfLogical.err /\ result.ev = NilEval

\* C13 witness: the left operand of `||` compiled to a Bool evaluator, the
\* right one failed, and the compile returned that error and no evaluator
C13_Witness ==
  /\ IsLogicalRule
  /\ IsNil(LeftOfLogical.err) /\ LeftOfLogical.ev.kind = "Bool"
  /\ ~IsNil(RightOfLogical.err) /\ Failed
  /\ result.err = RightOfLogical.err /\ result.ev = NilEval

\* C14 as stated: the compile of an AST, hand-built ones with nil fields or
\* unknown node kinds included, returns an evaluator or an error; it never
\* faults.
C14_NeverFaults == ~Panicked(result.err)

\* C15 as stated: every error the compile of a rule returns comes with the
\* position of a node of the rule, never with the zero position.
C15_ErrorHasPosition ==
  (rule.parsed /\ Failed) => result.pos # NoPos /\ result.pos >= Node.Pos

\* C16 as stated: the compile of the same rule from another fresh
\* CompileState has the same outcome: the same error or evaluator kind, the
\* same field set and the same register map.
C16_Deterministic ==
  rule.parsed =>
    \A rs \in Oracles(Len(rule.rand)) :
      LET o == nodeToEvaluator(Node, Opts, NewState(rs))
      IN /\ o.err = result.err
         /\ o.ev.kind = result.ev.kind
         /\ o.st.fields = state.fields
         /\ o.st.registersInfo = state.registersInfo

----------------------------------------------------------------------------
(* Properties of the registers, of the legacy names and of extractField *)

\* the resolution that a step of the compile has just made
Last == Log'[Len(Log')]

\* the step resolves one more identifier of the same compile
Resolving == Len(Log') = Len(Log) + 1

\* the resolution reached the register map with the id r
Reuses(e, r) ==
  /\ e.via = "field" /\ e.iterator # Empty /\ Anonymous(e)
  /\ e.regID = r

\* C18: a register id keeps the iterator field (and iterator) recorded for
\* it: a resolution that reuses the id with another iterator field gets the
\* register-conflict error and leaves the entry as it is, one that reuses it
\* with the same iterator field only adds its field to the subfield set, and
\* any other resolution leaves the entry as it is.
C18_RegisterFieldStable ==
  [][Resolving =>
       \A r \in DOMAIN Registers :
         /\ r \in DOMAIN Registers'
         /\ Registers'[r].field = Registers[r].field
         /\ Registers'[r].iterator = Registers[r].iterator
         /\ IF Reuses(Last, r)
            THEN IF Last.itField # Registers[r].field
                 THEN /\ Last.err.kind = "RegisterMultipleFields"
                      /\ Registers'[r] = Registers[r]
                 ELSE /\ Last.err.kind # "RegisterMultipleFields"
                      /\ Registers'[r].subFields =
                           Registers[r].subFields \cup {Last.field}
            ELSE Registers'[r] = Registers[r]]_vars

\* C18 witness: an identifier of iterator field `b` was given the id already
\* recorded for another iterator field, and was rejected
C18_Witness ==
  \E i \in DOMAIN Log :
    /\ Log[i].err.kind = "RegisterMultipleFields"
    /\ Log[i].itField = ItB
    /\ Log[i].regID \in DOMAIN Registers
    /\ Registers[Log[i].regID].field # ItB
    /\ Log[i].field \notin Registers[Log[i].regID].subFields

\* a key of the legacy table replaced by its value
Remapped(opts, name) ==
  IF name \in DOMAIN opts.LegacyAttributes
  THEN opts.LegacyAttributes[name] ELSE name

\* the resolutions that reached the legacy table
AfterLegacy ==
  {i \in DOMAIN Log :
     Log[i].via = "field" /\ IsNil(extractField(Log[i].ident).err)}

\* C19 as stated: the normalized field is replaced by
\* LegacyAttributes[normalized field] and the iterator field by
\* LegacyAttributes[iterator field], each when its own key exists and
\* whatever the other is.
C19_IndependentRemap ==
  \A i \in AfterLegacy :
    LET ef == extractField(Log[i].ident)
    IN /\ Log[i].field = Remapped(Opts, ef.field)
       /\ Log[i].itField = Remapped(Opts, ef.itField)

\* the positions of the "[" of an identifier
Opens(s) == {i \in 1..Len(s) : s[i] = "["}

\* C20 as stated: extractField rejects an identifier with more than one
\* bracketed group with the register-format error, before any Model lookup;
\* of an identifier with one bracketed group it returns the bracket contents
\* as register id, the path without the bracket as normalized field and the
\* prefix before the bracket as iterator field.
C20_OneBracketGroup ==
  \A i \in DOMAIN Log :
    (Log[i].via = "field" /\ Opens(Log[i].ident) # {}) =>
      LET s == Log[i].ident
          ef == extractField(s)
          open == CHOOSE x \in Opens(s) : TRUE
          close == FirstClose(s, open)
      IN IF Cardinality(Opens(s)) > 1
         THEN /\ ef.err = ErrRegisterFormat
              /\ Log[i].err = ErrRegisterFormat
              /\ Log[i].iterator = Empty
         ELSE /\ IsNil(ef.err)
              /\ ef.regID = SubSeq(s, open + 1, close - 1)
              /\ ef.field = SubSeq(s, 1, open - 1) \o
                              SubSeq(s, close + 1, Len(s))
              /\ ef.itField = SubSeq(s, 1, open - 1)

----------------------------------------------------------------------------
(* Properties of the iterator scan, of the name tables and of the ids *)

\* the dotted prefixes of a field path, the path itself included
DottedPrefixes(s) ==
  {SubSeq(s, 1, i - 1) : i \in {j \in 1..Len(s) : s[j] = "."}} \cup {s}

\* the shortest dotted prefix that the Model knows as an iterator
ShortestIterator(s) ==
  LET known == DottedPrefixes(s) \cap ModelIterators
  IN IF known = {} THEN Empty
     ELSE CHOOSE x \in known : \A y \in known : Len(x) <= Len(y)

\* the resolutions that reached the register map
Reached == {i \in DOMAIN Log : Bound(Log[i])}

\* the register ids in the register map before resolution i
IdsBefore(i) == {Log[j].regID : j \in {k \in Reached : k < i}}

\* the bracketless identifiers with an iterator along their path whose
\* register id was new
ScannedNew ==
  {i \in Reached :
     /\ Opens(Log[i].ident) = {}
     /\ Log[i].regID \notin IdsBefore(i)}

\* C21 as stated: for an identifier without a bracket the iterator is the
\* one of the shortest dotted prefix of the normalized field that the Model
\* knows as an iterator, and the RegisterInfo created for it records that
\* prefix as iterator field, the iterator, and a subfield set holding the
\* normalized field.
C21_PrefixRecorded ==
  \A i \in ScannedNew :
    LET info == Registers[Log[i].regID]
    IN /\ Log[i].iterator = ShortestIterator(Log[i].field)
       /\ info.iterator = Log[i].iterator
       /\ info.field = ShortestIterator(Log[i].field)
       /\ Log[i].field \in info.subFields

\* C22 as stated: a name of the Constants table resolves to the constant, a
\* name that is only in the macro table to the macro, as primary identifier
\* and as identifier of an array alike; the right operand of `in` is then
\* that constant or macro.
C22_ConstantsFirst ==
  /\ \A i \in DOMAIN Log :
       /\ Log[i].ident \in DOMAIN Constants => Log[i].via = "constant"
       /\ (Log[i].ident \notin DOMAIN Constants
             /\ Log[i].ident \in DOMAIN Macros) => Log[i].via = "macro"
  /\ (IsArrayRule /\ IsNil(Left.err)
        /\ Deref(Node.ArrayComparison).Array.Ident # None
        /\ Len(Deref(Node.ArrayComparison).Array.Numbers) = 0
        /\ Len(Deref(Node.ArrayComparison).Array.StringMembers) = 0) =>
       LET id == Deref(Deref(Node.ArrayComparison).Array.Ident)
       IN /\ id \in DOMAIN Constants => Right.ev = Constants[id]
          /\ (id \notin DOMAIN Constants /\ id \in DOMAIN Macros) =>
               Right.ev = Macros[id]

\* C23 as stated: every accepted anonymous iteration is given a register id
\* that is not yet in the register map of the compile.
C23_FreshIds ==
  \A i \in DOMAIN Log :
    (Log[i].via = "field" /\ Log[i].iterator # Empty /\ Anonymous(Log[i])) =>
      Log[i].regID \notin IdsBefore(i)

\* a scalar comparison of a StringArray and a String, on either side
StringArrayPair ==
  /\ IsScalarRule /\ OperandsCompiled
  /\ {Left.ev.kind, Right.ev.kind} = {"String", "StringArray"}
  /\ ScalarOp \in {"==", "!=", "=~", "!~"}

StringOperand == IF Left.ev.kind = "String" THEN Left.ev ELSE Right.ev

\* the membership test, the String operand being the pattern of =~ and !~
MembershipTest ==
  CASE ScalarOp \in PatternOps /\ ~StringOperand.static ->
         result.err.kind = "NonStaticPattern" /\ result.ev = NilEval
    [] ScalarOp \in PatternOps /\ StringOperand.static
         /\ ~(StringOperand.compiled \/ StringOperand.valid) ->
         result.err = NewError(Node.Pos) /\ result.ev = NilEval
    [] OTHER ->
         /\ Succeeded /\ result.ev.kind = "Bool"
         /\ result.ev.op = "ArrayStringContains"
         /\ result.ev.lhs = StringOperand.name
         /\ result.ev.neg = (ScalarOp \in {"!=", "!~"})
         /\ ScalarOp \in PatternOps => result.ev.compiled

\* C24 as stated: a scalar comparison between a StringArray and a String
\* compiles to a membership test whichever side the array is on, for == !=
\* =~ !~, the String operand being a static pattern for =~ and !~.
C24_EitherSide == StringArrayPair => MembershipTest

\* C24 amended: with the StringArray on the left and the String on the right
\* the comparison compiles to a membership test returning a Bool evaluator
\* (negated for != and !~), the String being a static pattern that compiles
\* for =~ and !~; with the String on the left and the StringArray on the
\* right it fails with a type error expecting String at the right operand.
C24_ArrayOnLeft ==
  StringArrayPair =>
    IF Left.ev.kind = "StringArray" THEN MembershipTest
    ELSE /\ result.ev = NilEval
         /\ result.err = NewTypeError(RightOperandPos, "String")

\* C24 witness: a StringArray field `!~` a pattern compiled to the negated
\* membership test
C24_Witness ==
  /\ StringArrayPair /\ Left.ev.kind = "StringArray" /\ ScalarOp = "!~"
  /\ Succeeded /\ result.ev.op = "ArrayStringContains" /\ result.ev.neg
  /\ result.ev.compiled

\* C30 as stated: a resolution that fails leaves the CompileState as it was:
\* no register entry added or extended, no field name added.
C30_FailureLeavesState ==
  [][(Resolving /\ ~IsNil(Last.err)) =>
       /\ Registers' = Registers
       /\ state'.fields = state.fields]_vars

----------------------------------------------------------------------------
(* Properties of the sender *)

\* the destination is in the retry loop of sendAndRetry: a Write of the
\* payload in hand failed and the loop went on
InRetryLoop(d) == dest[d].pc = "send" /\ dest[d].failing

\* every reliable destination is in its retry loop
ReliableFailing == InRetryLoop(Reliable)

\* C17 as stated: while every reliable destination stays in its retry loop
\* the unreliable destination is sent no further payload, and a payload
\* that the sender reads while a reliable destination works is sent to the
\* unreliable destination too.
C17_UnreliableWaits ==
  [][/\ (ReliableFailing /\ ReliableFailing') =>
          sender'.handed[Unreliable] = sender.handed[Unreliable]
     /\ (~ReliableFailing /\ sender'.next # sender.next) =>
          sender'.handed[Unreliable] =
            Append(sender.handed[Unreliable], sender.next)]_vars

\* the payloads of a sequence
Range(q) == {q[i] : i \in DOMAIN q}

\* the payloads the sender may hand over
Payloads == 1..MaxPayloads

\* the goroutine of d has read payload p from input and is in sendAndRetry
InHand(d, p) == dest[d].pc \in {"send", "output"} /\ dest[d].payload.id = p

\* the writes eventually succeed and the destinations context is not
\* cancelled
WritesSucceed == <>[](env.up[Reliable]) /\ []~env.cancelled

\* what holds of the output of the retrying destination at all times: a
\* payload goes to output only after a Write took its frame, in the order
\* read and once, and isRetrying is closed only after input is closed and
\* drained
RetryingOutput ==
  LET dst == dest[Reliable]
  IN /\ Range(dst.output) \subseteq dst.written
     /\ \A i \in DOMAIN dst.output : \A j \in DOMAIN dst.output :
          i < j => dst.output[i] < dst.output[j]
     /\ dst.isRetryingClosed =>
          dst.inputClosed /\ dst.input = <<>> /\ dst.pc = "done"
     /\ dst.pc = "output" => dst.payload.id \in dst.written

\* C27 as stated: with shouldRetry a payload whose Write fails is retried
\* until a Write succeeds; if writes eventually succeed and the context is
\* not cancelled, every payload read from input is eventually sent to output,
\* once and in the order read, and isRetrying is closed after input is closed
\* and drained.
C27_EveryPayloadSent ==
  /\ []RetryingOutput
  /\ WritesSucceed =>
       /\ \A p \in Payloads :
            InHand(Reliable, p) ~> (p \in Range(dest[Reliable].output))
       /\ dest[Reliable].inputClosed ~> dest[Reliable].isRetryingClosed

\* C27 amended: with shouldRetry a payload whose Write fails is retried on a
\* new connection until a Write succeeds; if writes eventually succeed and
\* the context is not cancelled, every payload read from input that the
\* delimiter can frame is eventually sent to output, once and in the order
\* read, a payload that cannot be framed is counted as dropped and never
\* sent to output, and isRetrying is closed after input is closed and
\* drained.
C27_EveryFramedPayloadSent ==
  /\ []RetryingOutput
  /\ [](\A p \in Payloads :
          (InHand(Reliable, p) /\ ~dest[Reliable].payload.framed) =>
            p \notin Range(dest[Reliable].output))
  /\ WritesSucceed =>
       /\ \A p \in Payloads :
            (InHand(Reliable, p) /\ dest[Reliable].payload.framed)
              ~> (p \in Range(dest[Reliable].output))
       /\ \A p \in Payloads :
            (InHand(Reliable, p) /\ ~dest[Reliable].payload.framed)
              ~> (p \in dest[Reliable].dropped)
       /\ dest[Reliable].inputClosed ~> dest[Reliable].isRetryingClosed

\* C27 witness: a payload whose Write failed was retried and sent to output,
\* and isRetrying is closed
C27_Witness ==
  /\ \E p \in dest[Reliable].retried :
       p \in Range(dest[Reliable].output) /\ p \in dest[Reliable].written
  /\ dest[Reliable].isRetryingClosed

\* C28 as stated: for every destination a payload is counted as sent and
\* sent to output only if a Write took its frame, a payload counted as
\* dropped is neither counted as sent nor sent to output, and
\* CloseConnection is never called with a nil connection.
C28_SentOnlyIfWritten ==
  \A d \in Destinations :
    /\ Range(dest[d].sent) \subseteq dest[d].written
    /\ Range(dest[d].output) \subseteq dest[d].written
    /\ dest[d].dropped \cap (Range(dest[d].sent) \cup Range(dest[d].output))
         = {}
    /\ ~dest[d].closedNil

----------------------------------------------------------------------------
(* Properties of the configPoller *)

\* C25 as stated: stop() on a poller that can poll and is polling makes the
\* goroutine of poll deregister the health handle, stop the ticker and
\* return, and leaves isPolling false; stop() on a poller that cannot poll
\* or is not polling returns without blocking.
C25_StopStopsPolling ==
  /\ (poller.stop = "returned" /\ poller.stopWhilePolling) =>
       /\ ~poller.isPolling
       /\ poller.pc = "returned"
       /\ poller.healthHandle = "deregistered"
       /\ poller.ticker = "stopped"
  /\ poller.stop = "blocked" => poller.stopWhilePolling

Tick == poller.tick

RemovalCalls == {"processRemovedConfigs", "removeConfigTemplates"}

NewCalls == {"processNewConfig", "schedule"}

\* the calls of the tick with the name
CallsOf(name) == {i \in DOMAIN Tick.calls : Tick.calls[i].name = name}

\* C26: in a poll tick with the provider not up to date the removed
\* configurations are processed and their templates removed before any new
\* configuration is processed or scheduled; the new configurations are those
\* of the fetched list that were absent from the stored list, the removed
\* ones those of the stored list that are absent from the fetched list; a
\* failed Collect reports nothing and keeps the stored list.
C26_RemovedBeforeNew ==
  Tick.polled =>
    /\ \A i \in DOMAIN Tick.calls : \A j \in DOMAIN Tick.calls :
         (Tick.calls[i].name \in RemovalCalls
            /\ Tick.calls[j].name \in NewCalls) => i < j
    /\ \A i \in CallsOf("schedule") :
         /\ i - 1 \in CallsOf("processNewConfig")
         /\ Tick.calls[i - 1].arg = Tick.calls[i].arg
    /\ CASE Tick.upToDate ->
              Tick.calls = <<>> /\ poller.configs = Tick.old
         [] ~Tick.upToDate /\ Tick.failed ->
              /\ Tick.newConfigs = <<>> /\ Tick.removedConfigs = <<>>
              /\ CallsOf("processNewConfig") = {} /\ CallsOf("schedule") = {}
              /\ \A i \in DOMAIN Tick.calls : Tick.calls[i].arg = <<>>
              /\ poller.configs = Tick.old
         [] OTHER ->
              /\ Range(Tick.newConfigs) =
                   Range(Tick.fetched) \ Range(Tick.old)
              /\ Range(Tick.removedConfigs) =
                   Range(Tick.old) \ Range(Tick.fetched)
              /\ poller.configs = Tick.fetched
              /\ Cardinality(CallsOf("processRemovedConfigs")) = 1
              /\ Cardinality(CallsOf("removeConfigTemplates")) = 1
              /\ \A i \in DOMAIN Tick.calls :
                   Tick.calls[i].name \in RemovalCalls =>
                     Tick.calls[i].arg = Tick.removedConfigs
              /\ {Tick.calls[i].arg : i \in CallsOf("processNewConfig")} =
                   Range(Tick.newConfigs)
              /\ {Tick.calls[i].arg : i \in CallsOf("schedule")} =
                   Range(Tick.newConfigs)

\* C26 witness: a tick that removed a configuration and found a new one,
\* the removal processed first
C26_Witness ==
  /\ Tick.polled /\ ~Tick.upToDate /\ ~Tick.failed
  /\ Tick.removedConfigs # <<>> /\ Tick.newConfigs # <<>>
  /\ Tick.old # <<>>
  /\ Tick.calls[1].name = "processRemovedConfigs"
  /\ Tick.calls[3].name = "processNewConfig"

----------------------------------------------------------------------------
(* Properties of the uptane remote stores *)

\* the paths asked of GetMeta
StoreMetaPaths ==
  {MetaPath(r, v, vs) : r \in TopRoles \cup {DelegatedRole, "other"},
                        v \in Versions, vs \in BOOLEAN}

\* the versions the store holds of a role
Held(r) ==
  IF r \in DOMAIN store.s.metas THEN DOMAIN store.s.metas[r] ELSE {}

\* C29 as stated: after any updates of a director or config store the
\* timestamp, snapshot and targets roles each hold at most one version, the
\* one of the last update that had that role; every root version received is
\* retrievable through GetMeta; GetMeta of an unversioned path succeeds only
\* for timestamp, with its latest stored version, and GetMeta returns
\* ErrNotFound for every other unversioned path and every version not held.
C29_OneVersionPerRole ==
  store.kind # "none" =>
    /\ \A r \in TopRoles \ {roleRoot} :
         Held(r) = IF store.carried[r] = None THEN {}
                   ELSE {Deref(store.carried[r])}
    /\ \A v \in store.roots :
         GetMeta(store.s, MetaPath(roleRoot, v, TRUE)).err = "nil"
    /\ \A mp \in StoreMetaPaths :
         LET g == GetMeta(store.s, mp)
         IN IF ~mp.versionSet
            THEN IF mp.role = roleTimestamp /\ Held(mp.role) # {}
                 THEN /\ g.err = "nil"
                      /\ \E v \in Held(mp.role) :
                           /\ \A w \in Held(mp.role) : w <= v
                           /\ g.raw = store.s.metas[mp.role][v]
                 ELSE g = ErrNotFound
            ELSE IF mp.version \in Held(mp.role)
                 THEN g.err = "nil"
                        /\ g.raw = store.s.metas[mp.role][mp.version]
                 ELSE g = ErrNotFound

====
